---- MODULE Spec2Model ----
\* Provenance tracers (run / step / request), source snapshot writers and the
\* consolidation engine of adrien-gtd/artist-data-acquisition, as a state
\* machine over the SQLite tables the code writes.
EXTENDS Integers, Sequences, FiniteSets, TLC

\* ------------------------------------------------------------------ bounds
MaxArtists == 2     \* longest artist_list, and number of distinct local ids
MaxRuns == 2        \* job executions (daily or identity) in one behaviour
MaxFaults == 2      \* environment faults in one behaviour
MaxValue == 2       \* distinct metric values a platform can report
MaxDays == 2        \* logical days the writer API is exercised with
MaxTime == 2        \* fetch timestamps the writer API is exercised with
MaxOps == 4         \* writer-API calls in one behaviour of SpecStore
MaxInfoOps == 2     \* upsert_artist_info calls in one behaviour of SpecInfo
MaxJoins == 1       \* join_artist_info calls in one behaviour of SpecJoin
MaxScopes == 4
MaxRetries == 3      \* max_retries of a platform client is drawn from 0..MaxRetries
MaxCalls == 2        \* _request calls made on the clients
MaxPages == 3        \* artist pages the spider can reach
MaxItems == 2        \* max_artists of the spider is drawn from 0..MaxItems      \* run and step scopes opened in one behaviour of SpecTrace

\* ------------------------------------------------------- program constants
RUN_MSG_LIMIT == 1000   \* str(exc_value)[:1000] in RunContext.__exit__
MsgLen == 20            \* length of the messages the modelled errors carry

Null == -1              \* SQL NULL / Python None in a numeric column
NullStr == "NULL"       \* SQL NULL / Python None in a text column
Absent == -2            \* key missing from an artist dict
Unbound == -3           \* Python local never assigned in this call
NoExc == [type |-> "none", len |-> 0]   \* no exception in flight

ArtistIds == 1..MaxArtists
Days == 1..MaxDays
Values == 1..MaxValue
DAY_STR == 1                      \* the logical day daily_job processes
IDENTITY_DAY == 0                  \* run_day="identity_retrieval"

Sources == {"spotify", "wikipedia", "youtube"}
StepOrder == <<"spotify", "wikipedia", "youtube">>

\* step_name given to StepContext by each process_* function
StepName(src) == IF src = "spotify" THEN "process_spotify_data"
                 ELSE IF src = "wikipedia" THEN "process_wikipedia_data"
                 ELSE "process_youtube_data"

\* key of the artist dict each process_* function reads first
PlatformKey(src) == IF src = "spotify" THEN "spotify_artist_id"
                    ELSE IF src = "wikipedia" THEN "wiki_title"
                    ELSE "youtube_channel_id"

\* variant: every step issues a second call per entity (for Wikipedia and
\* YouTube, the same endpoint again)
NumRequests_again(src) == 2

\* traced adapter calls per entity: get_artist + get_artist_top_tracks,
\* get_pageviews_daily, get_channel
NumRequests(src) == IF src = "spotify" THEN 2 ELSE 1

\* does the adapter method the step calls take the request_ctx keyword?
\* YouTubeAPI.get_channel(self, channel_id) does not.
AcceptsRequestCtx(src) == src # "youtube"

\* endpoint the adapter records with set_endpoint after a successful call
Endpoint(src, k) == IF src = "spotify"
                      THEN (IF k = 1 THEN "/artists/{id}" ELSE "/artists/{id}/top-tracks")
                    ELSE IF src = "wikipedia" THEN "/metrics/pageviews/per-article"
                    ELSE "/channels"

\* params the adapter records with set_params (top-tracks only)
Params(src, k) == IF src = "spotify" /\ k = 2 THEN "{market: FR}" ELSE NullStr

\* ---------------------------------------------------------------- artists
\* An artist dict of the registry: every key is either present or missing.
ArtistDict(i, missing) ==
  [local_artist_id    |-> IF missing = "local_artist_id" THEN Absent ELSE i,
   spotify_artist_id  |-> IF missing = "spotify_artist_id" THEN Absent ELSE i,
   wiki_title         |-> IF missing = "wiki_title" THEN Absent ELSE i,
   youtube_channel_id |-> IF missing = "youtube_channel_id" THEN Absent ELSE i]

MissingKinds == {"none", "local_artist_id", "spotify_artist_id", "wiki_title",
                 "youtube_channel_id"}

\* artist lists: the k-th entry describes artist k, at most one key missing
ArtistLists ==
  UNION {{[k \in 1..n |-> ArtistDict(k, m[k])] : m \in [1..n -> MissingKinds]}
         : n \in 0..MaxArtists}

NumMissing(list) == Cardinality({k \in DOMAIN list : \E f \in DOMAIN list[k] : list[k][f] = Absent})

\* ------------------------------------------------------------------ state
VARIABLES
  pipeline_run,          \* table pipeline_run (set of rows, key run_id)
  pipeline_run_step,     \* table pipeline_run_step (key step_run_id)
  api_request,           \* table api_request (key request_id)
  spotify_artist_daily,  \* source snapshot tables (key local_artist_id, day_date)
  wiki_artist_daily,
  youtube_artist_daily,
  artist_day,            \* unified table (key local_artist_id, day_date)
  now,                   \* the UTC clock, in ms
  uuid,                  \* number of uuid4 values drawn so far
  pc,                    \* position of the running job
  job,                   \* locals of daily_job / retrieve_and_store_artist_info
  step,                  \* locals of the running process_* call (its StepContext)
  ent,                   \* locals of the current loop iteration
  faults,                \* environment faults injected so far
  runs,                  \* jobs started so far
  write_log,             \* history: lineage writes and merge calls, in commit order
  scopes,                \* history: RequestContext scopes that have exited
  closed_steps,          \* history: StepContext scopes that have exited
  returned,              \* history: jobs that have ended, and how their caller saw them end
  writer_log,            \* history: calls of the snapshot writers and of the merge
  artist_info,           \* table artist_info (key local_artist_id)
  info_log,              \* history: calls of join_artist_info and upsert_artist_info
  http,                  \* locals of the running _request call of a platform client
  spider                 \* SpotiflySpider: its fields, the scheduler, the running parse calls

tables == <<pipeline_run, pipeline_run_step, api_request, spotify_artist_daily,
            wiki_artist_daily, youtube_artist_daily, artist_day>>
snapshots == <<spotify_artist_daily, wiki_artist_daily, youtube_artist_daily>>
lineage == <<pipeline_run, pipeline_run_step, api_request>>
history == <<write_log, scopes, closed_steps, returned>>
reference == <<artist_info, info_log>>
control == <<now, uuid, pc, job, step, ent, faults, runs>>
vars == <<pipeline_run, pipeline_run_step, api_request, spotify_artist_daily,
          wiki_artist_daily, youtube_artist_daily, artist_day, now, uuid, pc,
          job, step, ent, faults, runs, write_log, scopes, closed_steps, returned,
          writer_log, artist_info, info_log, http, spider>>



\* ------------------------------------------------------ db/writer.py: lineage
\* variant: one row per logical day (the conflict target is run_day)
upsert_run_meta_per_day(table, row) ==
  {r \in table : r.run_day # row.run_day} \cup {row}

\* INSERT ... ON CONFLICT(run_id) DO UPDATE SET <every column>
upsert_run_meta(table, row) ==
  {r \in table : r.run_id # row.run_id} \cup {row}

\* INSERT ... ON CONFLICT(step_run_id) DO UPDATE SET <every column>
upsert_run_step_meta(table, row) ==
  {r \in table : r.step_run_id # row.step_run_id} \cup {row}

\* variant: one request row per entity and endpoint (a later run's call
\* replaces the row of an earlier one)
upsert_api_request_per_entity(table, row) ==
  {r \in table : r.local_artist_id # row.local_artist_id \/ r.endpoint # row.endpoint}
    \cup {row}

\* INSERT ... ON CONFLICT(request_id) DO UPDATE SET <every column>
upsert_api_request(table, row) ==
  {r \in table : r.request_id # row.request_id} \cup {row}

\* api_request.endpoint is declared TEXT NOT NULL: SQLite rejects the INSERT
\* of a row whose endpoint is NULL with an IntegrityError.
RequestRowAccepted(row) == row.endpoint # NullStr

\* ------------------------------------------------------------- exceptions
Exc(type) == [type |-> type, len |-> MsgLen]

\* variant: the opening write already stamps the end time and duration
RunContext_enter_stamped(run_id, run_day, t) ==
  [run_id |-> run_id, run_day |-> run_day, commit_hash |-> "commit",
   started_at |-> t, ended_at |-> t, duration_ms |-> 0,
   status |-> "in_progress", error_message |-> Null, error_type |-> NullStr]

\* ------------------------------------------- provenance/workflow_provenance.py
\* RunContext.__enter__: the row written when the run opens
RunContext_enter(run_id, run_day, t) ==
  [run_id |-> run_id, run_day |-> run_day, commit_hash |-> "commit",
   started_at |-> t, ended_at |-> Null, duration_ms |-> Null,
   status |-> "in_progress", error_message |-> Null, error_type |-> NullStr]

\* variant: the closing write repeats the opening row (status and end time
\* are never finalized)
RunContext_exit_unfinalized(j, exc, t) ==
  [run_id |-> j.run_id, run_day |-> j.run_day, commit_hash |-> "commit",
   started_at |-> j.started_at, ended_at |-> Null, duration_ms |-> Null,
   status |-> "in_progress", error_message |-> Null, error_type |-> NullStr]

\* RunContext.__exit__: the row written when the run scope exits
RunContext_exit(j, exc, t) ==
  [run_id |-> j.run_id, run_day |-> j.run_day, commit_hash |-> "commit",
   started_at |-> j.started_at, ended_at |-> t,
   duration_ms |-> t - j.started_at,
   status |-> IF exc = NoExc THEN "completed" ELSE "failed",
   error_message |-> IF exc = NoExc THEN Null
                     ELSE (IF exc.len < RUN_MSG_LIMIT THEN exc.len ELSE RUN_MSG_LIMIT),
   error_type |-> IF exc = NoExc THEN NullStr ELSE exc.type]

\* variant: __exit__ returns True, the exception is swallowed
Context_swallows(exc) == NoExc

\* RunContext.__exit__ returns False: the exception in flight leaves the block
RunContext_propagates(exc) == exc

\* StepContext.__exit__ returns False: the exception in flight leaves the block
StepContext_propagates(exc) == exc

\* variant: the opening write already marks the step completed
StepContext_enter_closed(run_id, step_run_id, src, t) ==
  [step_run_id |-> step_run_id, run_id |-> run_id, step_name |-> StepName(src),
   started_at |-> t, ended_at |-> t, duration_ms |-> 0,
   success_count |-> Null, error_count |-> Null, status |-> "completed",
   inputs_json |-> "artist_list", outputs_json |-> src,
   error_message |-> Null, error_type |-> NullStr]

\* StepContext.__enter__: the row written when the step opens
StepContext_enter(run_id, step_run_id, src, t) ==
  [step_run_id |-> step_run_id, run_id |-> run_id, step_name |-> StepName(src),
   started_at |-> t, ended_at |-> Null, duration_ms |-> Null,
   success_count |-> Null, error_count |-> Null, status |-> "in_progress",
   inputs_json |-> "artist_list", outputs_json |-> src,
   error_message |-> Null, error_type |-> NullStr]

\* variant: the counters are persisted as they are, zero included
StepContext_exit_zeros(s, exc, t) ==
  [step_run_id |-> s.step_run_id, run_id |-> s.run_id, step_name |-> StepName(s.source),
   started_at |-> s.started_at, ended_at |-> t, duration_ms |-> t - s.started_at,
   success_count |-> s.success_count, error_count |-> s.error_count,
   status |-> IF exc = NoExc THEN "completed" ELSE "failed",
   inputs_json |-> "artist_list", outputs_json |-> s.source,
   error_message |-> IF exc = NoExc THEN Null ELSE exc.len,
   error_type |-> IF exc = NoExc THEN NullStr ELSE exc.type]

\* StepContext.__exit__: the row written when the step scope exits
StepContext_exit(s, exc, t) ==
  LET none == s.error_count = 0 /\ s.success_count = 0 IN
  [step_run_id |-> s.step_run_id, run_id |-> s.run_id, step_name |-> StepName(s.source),
   started_at |-> s.started_at, ended_at |-> t, duration_ms |-> t - s.started_at,
   success_count |-> IF none THEN Null ELSE s.success_count,
   error_count |-> IF none THEN Null ELSE s.error_count,
   status |-> IF exc = NoExc THEN "completed" ELSE "failed",
   inputs_json |-> "artist_list", outputs_json |-> s.source,
   error_message |-> IF exc = NoExc THEN Null ELSE exc.len,
   error_type |-> IF exc = NoExc THEN NullStr ELSE exc.type]

\* ----------------------------------------- provenance/fine_grain_provenance.py
\* variant: the run's id is filed in the step column as well
RequestContext_enter_run_as_step(request_id, run_id, step_run_id, src, local_artist_id, platform_id, t) ==
  [request_id |-> request_id, run_id |-> run_id, step_run_id |-> run_id,
   source |-> src, local_artist_id |-> local_artist_id, platform_id |-> platform_id,
   endpoint |-> NullStr, http_status |-> Null, params |-> NullStr, started_at |-> t]

\* RequestContext(...) followed by __enter__
RequestContext_enter(request_id, run_id, step_run_id, src, local_artist_id, platform_id, t) ==
  [request_id |-> request_id, run_id |-> run_id, step_run_id |-> step_run_id,
   source |-> src, local_artist_id |-> local_artist_id, platform_id |-> platform_id,
   endpoint |-> NullStr, http_status |-> Null, params |-> NullStr, started_at |-> t]

set_endpoint(ctx, endpoint) == [ctx EXCEPT !.endpoint = endpoint]
set_http_status(ctx, http_status) == [ctx EXCEPT !.http_status = http_status]
set_params(ctx, params) == [ctx EXCEPT !.params = params]

\* variant: ok is derived from the recorded HTTP status
RequestOk_from_status(ctx, exc) == IF ctx.http_status = 200 THEN 1 ELSE 0

\* ok = 1 if exc_type is None else 0
RequestOk(ctx, exc) == IF exc = NoExc THEN 1 ELSE 0

\* variant: the row carries the status recorded through set_http_status
RequestContext_exit_with_status(ctx, exc, t) ==
  [request_id |-> ctx.request_id, run_id |-> ctx.run_id, step_run_id |-> ctx.step_run_id,
   source |-> ctx.source, local_artist_id |-> ctx.local_artist_id,
   platform_id |-> ctx.platform_id, endpoint |-> ctx.endpoint,
   request_params_json |-> ctx.params,
   requested_at |-> ctx.started_at, finished_at |-> t,
   duration_ms |-> t - ctx.started_at,
   http_status |-> ctx.http_status,
   ok |-> RequestOk(ctx, exc),
   error_type |-> IF exc = NoExc THEN NullStr ELSE exc.type,
   error_message |-> IF exc = NoExc THEN Null ELSE exc.len]

\* RequestContext.__exit__: the row handed to upsert_api_request
RequestContext_exit(ctx, exc, t) ==
  [request_id |-> ctx.request_id, run_id |-> ctx.run_id, step_run_id |-> ctx.step_run_id,
   source |-> ctx.source, local_artist_id |-> ctx.local_artist_id,
   platform_id |-> ctx.platform_id, endpoint |-> ctx.endpoint,
   request_params_json |-> ctx.params,
   requested_at |-> ctx.started_at, finished_at |-> t,
   duration_ms |-> t - ctx.started_at,
   http_status |-> Null,
   ok |-> RequestOk(ctx, exc),
   error_type |-> IF exc = NoExc THEN NullStr ELSE exc.type,
   error_message |-> IF exc = NoExc THEN Null ELSE exc.len]

\* What the adapter method does to the context when the call returns:
\* set_endpoint, (set_params,) set_http_status
AdapterRecords(ctx, src, k) ==
  LET c1 == set_endpoint(ctx, Endpoint(src, k))
      c2 == IF Params(src, k) # NullStr THEN set_params(c1, Params(src, k)) ELSE c1
  IN set_http_status(c2, 200)


\* ------------------------------------------------- db/writer.py: snapshots
SameKey(r, row) == r.local_artist_id = row.local_artist_id /\ r.day_date = row.day_date

\* the request-id columns of the snapshot tables
RequestColumns(src) ==
  IF src = "spotify" THEN {"top_tracks_request_id", "artist_request_id"} ELSE {"request_id"}

\* the row an INSERT of the snapshot writers leaves: the column list names
\* every column but the request-id ones, which get NULL
Inserted(src, row) ==
  [c \in DOMAIN row \cup RequestColumns(src) |->
     IF c \in RequestColumns(src) THEN Null ELSE row[c]]

\* variant: INSERT OR IGNORE, the stored row wins over the new one
upsert_keep_existing(table, row) ==
  IF \E r \in table : SameKey(r, row) THEN table ELSE table \cup {row}

\* INSERT ... ON CONFLICT(local_artist_id, day_date) DO UPDATE SET <every column>
upsert_spotify_daily(table, row) ==
  {r \in table : ~SameKey(r, row)} \cup {Inserted("spotify", row)}

\* variant: a None in the new record keeps the stored value (COALESCE)
upsert_wiki_coalescing(table, row) ==
  LET old == {r \in table : SameKey(r, row)} IN
  {r \in table : ~SameKey(r, row)} \cup
    {IF old # {} /\ row.pageviews = Null
       THEN [row EXCEPT !.pageviews = (CHOOSE r \in old : TRUE).pageviews]
       ELSE row}

\* INSERT ... ON CONFLICT(local_artist_id, day_date) DO UPDATE SET <every column>
upsert_wiki_daily(table, row) ==
  {r \in table : ~SameKey(r, row)} \cup {Inserted("wikipedia", row)}

\* INSERT ... ON CONFLICT(local_artist_id, day_date) DO UPDATE SET <every column>
upsert_youtube_daily(table, row) ==
  {r \in table : ~SameKey(r, row)} \cup {Inserted("youtube", row)}

\* variant: on conflict the metrics are updated, the run references are not
upsert_artist_daily_keeps_refs(table, row) ==
  {r \in table : ~SameKey(r, row)} \cup
  (IF \E r \in table : SameKey(r, row)
     THEN {[row EXCEPT !.job_run_spotify = r.job_run_spotify,
                       !.job_run_wiki = r.job_run_wiki,
                       !.job_run_youtube = r.job_run_youtube] :
             r \in {q \in table : SameKey(q, row)}}
     ELSE {row})

\* variant: the conflict target is local_artist_id alone (one unified row
\* per artist, whatever the day)
upsert_artist_daily_per_artist(table, row) ==
  {r \in table : r.local_artist_id # row.local_artist_id} \cup {row}

\* INSERT ... ON CONFLICT(local_artist_id, day_date) DO UPDATE SET <every column>
upsert_artist_daily(table, row) == {r \in table : ~SameKey(r, row)} \cup {row}

\* variant: the WHERE clause forgets day_date
SelectLatest_any_day(table, a, d) ==
  LET m == {r \in table : r.local_artist_id = a} IN
  IF m = {} THEN {}
  ELSE {CHOOSE r \in m : \A q \in m : q.fetched_at <= r.fetched_at}

\* SELECT ... WHERE local_artist_id = ? AND day_date = ?
\*   ORDER BY fetched_at DESC LIMIT 1, then fetchone(): no row or one row
SelectLatest(table, a, d) ==
  LET m == {r \in table : r.local_artist_id = a /\ r.day_date = d} IN
  IF m = {} THEN {}
  ELSE {CHOOSE r \in m : \A q \in m : q.fetched_at <= r.fetched_at}

\* the value a column of the fetched row contributes, None when no row
Col(rows, f) == IF rows = {} THEN Null ELSE (CHOOSE r \in rows : TRUE)[f]

\* the merged_data dict merge_daily_data builds for one artist
MergedData(a, d, sp, wk, yt) ==
  [local_artist_id |-> a, day_date |-> d,
   job_run_spotify |-> Col(sp, "job_run_id"),
   job_run_wiki |-> Col(wk, "job_run_id"),
   job_run_youtube |-> Col(yt, "job_run_id"),
   spotify_followers_total |-> Col(sp, "followers_total"),
   spotify_popularity |-> Col(sp, "popularity"),
   spotify_top_track_popularity_mean |-> Col(sp, "top_track_popularity_mean"),
   wiki_pageviews |-> Col(wk, "pageviews"),
   youtube_subscribers |-> Col(yt, "subscribers"),
   youtube_total_views |-> Col(yt, "total_views")]

\* variant: a unified row is written only when every source has a snapshot
MergeOne_requires_all(unified, a, d, spT, wkT, ytT) ==
  LET sp == SelectLatest(spT, a, d)
      wk == SelectLatest(wkT, a, d)
      yt == SelectLatest(ytT, a, d)
  IN IF sp # {} /\ wk # {} /\ yt # {}
       THEN upsert_artist_daily(unified, MergedData(a, d, sp, wk, yt))
       ELSE unified

\* variant: a unified row is written whether or not a snapshot was found
MergeOne_always_writes(unified, a, d, spT, wkT, ytT) ==
  upsert_artist_daily(unified, MergedData(a, d, SelectLatest(spT, a, d),
                                          SelectLatest(wkT, a, d), SelectLatest(ytT, a, d)))

\* one iteration of merge_daily_data's loop, for an artist whose id was read
MergeOne(unified, a, d, spT, wkT, ytT) ==
  LET sp == SelectLatest(spT, a, d)
      wk == SelectLatest(wkT, a, d)
      yt == SelectLatest(ytT, a, d)
  IN IF sp # {} \/ wk # {} \/ yt # {}
       THEN upsert_artist_daily(unified, MergedData(a, d, sp, wk, yt))
       ELSE unified

\* merge_daily_data(artist_list, conn, day_str): the unified table it leaves
\* and the exception it ends with (artist["local_artist_id"] raises KeyError)
RECURSIVE MergeFrom(_, _, _, _, _, _, _)
MergeFrom(unified, list, k, d, spT, wkT, ytT) ==
  IF k > Len(list) THEN [table |-> unified, exc |-> NoExc]
  ELSE IF list[k].local_artist_id = Absent
         THEN [table |-> unified, exc |-> [type |-> "KeyError", len |-> MsgLen]]
  ELSE MergeFrom(MergeOne(unified, list[k].local_artist_id, d, spT, wkT, ytT),
                 list, k + 1, d, spT, wkT, ytT)

merge_daily_data(unified, list, d, spT, wkT, ytT) ==
  MergeFrom(unified, list, 1, d, spT, wkT, ytT)

\* ---------------------------------------------------------- normalize/*.py
\* the SpotifyArtistDaily attribute bag built from the two payloads
normalize_spotify_daily(raw, a, pid, d, t, run_id) ==
  [local_artist_id |-> a, spotify_artist_id |-> pid, day_date |-> d,
   fetched_at |-> t, job_run_id |-> run_id,
   followers_total |-> raw[1], popularity |-> raw[1],
   top_track_popularity_max |-> raw[2], top_track_popularity_mean |-> raw[2],
   num_top_tracks |-> raw[2]]

normalize_wiki_daily(raw, a, pid, d, t, run_id) ==
  [local_artist_id |-> a, wiki_title |-> pid, day_date |-> d,
   fetched_at |-> t, job_run_id |-> run_id, pageviews |-> raw[1]]

normalize_youtube_daily(raw, a, pid, d, t, run_id) ==
  [local_artist_id |-> a, youtube_channel_id |-> pid, day_date |-> d,
   fetched_at |-> t, job_run_id |-> run_id,
   subscribers |-> raw[1], total_views |-> raw[1], video_count |-> raw[1]]

\* does the normalizer accept the keywords the step passes?
\* normalize_youtube_daily has no request_id parameter.
NormalizerAccepts(src) == src # "youtube"


\* ------------------------------------------------------------ job control
NoJob == [kind |-> "none", run_id |-> Null, run_day |-> Null, artist_list |-> <<>>,
          started_at |-> Null, si |-> 0, exc |-> NoExc, reported |-> Null,
          setup_failed |-> "none"]

NoStep == [source |-> "none", step_run_id |-> Null, run_id |-> Null, started_at |-> Null,
           success_count |-> 0, error_count |-> 0, idx |-> 0, visited |-> <<>>,
           local_artist_id |-> Unbound, exc |-> NoExc,
           remote_faults |-> 0, other_faults |-> 0, call_raises |-> 0, storage_faults |-> 0]

NoEnt == [platform_id |-> Null, req |-> 0, raw |-> <<>>, request_ids |-> <<>>]

\* history of the writer calls: how many were made, every row ever handed to
\* each snapshot writer (as the columns its INSERT binds), the row handed
\* last for each (artist, day), the request ids of the fetches that were
\* stored, and the last call
NoCalls == [calls |-> 0, merges |-> 0, fetched |-> {},
            ever |-> [spotify |-> {}, wikipedia |-> {}, youtube |-> {}],
            last |-> [spotify |-> {}, wikipedia |-> {}, youtube |-> {}],
            seen |-> [spotify |-> {}, wikipedia |-> {}, youtube |-> {}],
            missed |-> {},
            last_op |-> [kind |-> "none", list |-> <<>>, day |-> Null]]

RecordUpsert(log, src, row) ==
  [log EXCEPT !.calls = @ + 1,
              !.ever[src] = @ \cup {Inserted(src, row)},
              !.last[src] = {r \in @ : ~SameKey(r, row)} \cup {Inserted(src, row)},
              !.last_op = [kind |-> "upsert", list |-> <<>>, day |-> row.day_date]]

\* the artists a merge call reaches: those listed before an entry without id
RECURSIVE ReachedFrom(_, _)
ReachedFrom(list, k) ==
  IF k > Len(list) \/ list[k].local_artist_id = Absent THEN {}
  ELSE {list[k].local_artist_id} \cup ReachedFrom(list, k + 1)

Reached(list) == ReachedFrom(list, 1)

SnapshotTable(src) ==
  CASE src = "spotify" -> spotify_artist_daily
    [] src = "wikipedia" -> wiki_artist_daily
    [] src = "youtube" -> youtube_artist_daily

SnapshotOf(table, a, d) == {r \in table : r.local_artist_id = a /\ r.day_date = d}

\* a merge call also records the snapshot rows it found for the artists it
\* reached (seen), and the (source, artist, day) it found no snapshot for
RecordMerge(log, list, d) ==
  [log EXCEPT !.calls = @ + 1, !.merges = @ + 1,
              !.seen = [src \in Sources |->
                          @[src] \cup UNION {SnapshotOf(SnapshotTable(src), a, d) :
                                               a \in Reached(list)}],
              !.missed = @ \cup {t \in {<<src, a, d>> : src \in Sources, a \in Reached(list)} :
                                   SnapshotOf(SnapshotTable(t[1]), t[2], d) = {}},
              !.last_op = [kind |-> "merge", list |-> list, day |-> d]]

NoInfoCalls == [calls |-> 0, last_op |-> [kind |-> "none"]]

\* no _request call is running
NoHttp == [client |-> "none", pos |-> "idle", max_retries |-> 0, attempt |-> 0,
           sent |-> 0, token_posts |-> 0, last_err |-> "none", codes |-> <<>>,
           outcome |-> "none", calls |-> 0]

\* no spider has been constructed
NoSpider == [phase |-> "off", max_artists |-> 0, min_artist_listeners |-> 0,
             max_artist_listeners |-> 0, visited_artists |-> {}, counter |-> 0,
             items |-> <<>>, seen |-> {}, responses |-> {}, parsing |-> {},
             assert_failed |-> FALSE, overlapped |-> FALSE]

LogWrite(tbl, key, status) ==
  Append(write_log, [tbl |-> tbl, key |-> key, status |-> status,
                     ended_at |-> Null, duration_ms |-> Null])

\* one committed upsert_run_meta call, with the end time and duration it wrote
LogRunWrite(row) ==
  Append(write_log, [tbl |-> "pipeline_run", key |-> row.run_id, status |-> row.status,
                     ended_at |-> row.ended_at, duration_ms |-> row.duration_ms])

Init ==
  /\ pipeline_run = {} /\ pipeline_run_step = {} /\ api_request = {}
  /\ spotify_artist_daily = {} /\ wiki_artist_daily = {} /\ youtube_artist_daily = {}
  /\ artist_day = {}
  /\ now = 1 /\ uuid = 0 /\ pc = "idle"
  /\ job = NoJob /\ step = NoStep /\ ent = NoEnt
  /\ faults = 0 /\ runs = 0 /\ writer_log = NoCalls
  /\ write_log = <<>> /\ scopes = {} /\ closed_steps = {} /\ returned = {}
  /\ artist_info = {} /\ info_log = NoInfoCalls
  /\ http = NoHttp /\ spider = NoSpider

\* variant: the handler logs the error without tallying it
Handler_forgets_tally(s) ==
  IF s.local_artist_id = Unbound
    THEN [step |-> [s EXCEPT !.exc = [type |-> "UnboundLocalError", len |-> MsgLen]],
          pc |-> "step_raise"]
    ELSE [step |-> s, pc |-> "loop"]

\* variant: the handler tallies one error per traced call of the entity
Handler_tallies_per_call(s) ==
  LET s1 == [s EXCEPT !.error_count = @ + NumRequests(s.source)] IN
  IF s.local_artist_id = Unbound
    THEN [step |-> [s1 EXCEPT !.exc = [type |-> "UnboundLocalError", len |-> MsgLen]],
          pc |-> "step_raise"]
    ELSE [step |-> s1, pc |-> "loop"]

\* `except Exception as e:` of the process_* loops: tally, then print the
\* message, which reads the local variable local_artist_id
Handler(s) ==
  LET s1 == [s EXCEPT !.error_count = @ + 1] IN
  IF s.local_artist_id = Unbound
    THEN [step |-> [s1 EXCEPT !.exc = [type |-> "UnboundLocalError", len |-> MsgLen]],
          pc |-> "step_raise"]
    ELSE [step |-> s1, pc |-> "loop"]

\* daily_job, line 43: `with RunContext(...) as run_ctx` is entered
daily_job_begin ==
  /\ pc = "idle" /\ runs < MaxRuns
  /\ \E list \in ArtistLists, v \in Values :
       /\ faults + NumMissing(list) <= MaxFaults
       /\ faults' = faults + NumMissing(list)
       /\ job' = [kind |-> "daily", run_id |-> uuid + 1, run_day |-> DAY_STR,
                  artist_list |-> list, started_at |-> now, si |-> 1, exc |-> NoExc,
                  reported |-> v, setup_failed |-> "none"]
  /\ pipeline_run' = upsert_run_meta(pipeline_run, RunContext_enter(uuid + 1, DAY_STR, now))
  /\ write_log' = LogRunWrite(RunContext_enter(uuid + 1, DAY_STR, now))
  /\ uuid' = uuid + 1 /\ runs' = runs + 1 /\ now' = now + 1
  /\ pc' = "setup"
  /\ UNCHANGED <<http, spider, pipeline_run_step, api_request, snapshots, artist_day, step, ent,
                 scopes, closed_steps, returned, writer_log, reference>>

\* process_*_data, first line: the platform client cannot be constructed
\* (credentials missing from the environment); no StepContext exists yet
process_data_setup_error ==
  /\ pc = "setup" /\ faults < MaxFaults
  /\ faults' = faults + 1
  /\ job' = [job EXCEPT !.exc = [type |-> "APIError", len |-> MsgLen],
                         !.setup_failed = StepName(StepOrder[job.si])]
  /\ pc' = "run_exit"
  /\ UNCHANGED <<http, spider, tables, now, uuid, step, ent, runs, history, writer_log, reference>>

\* process_*_data: `with StepContext(...) as step_ctx` is entered
process_data_open ==
  /\ pc = "setup"
  /\ LET src == StepOrder[job.si] IN
     /\ step' = [NoStep EXCEPT !.source = src, !.step_run_id = uuid + 1,
                               !.run_id = job.run_id, !.started_at = now]
     /\ pipeline_run_step' = upsert_run_step_meta(pipeline_run_step,
                               StepContext_enter(job.run_id, uuid + 1, src, now))
  /\ write_log' = LogWrite("pipeline_run_step", uuid + 1,
                           StepContext_enter(job.run_id, uuid + 1, StepOrder[job.si], now).status)
  /\ uuid' = uuid + 1 /\ now' = now + 1
  /\ pc' = "loop"
  /\ UNCHANGED <<http, spider, pipeline_run, api_request, snapshots, artist_day, job, ent, faults,
                 runs, scopes, closed_steps, returned, writer_log, reference>>

\* top of the loop body: the two reads of the artist dict
loop_read_ids ==
  /\ pc = "loop" /\ step.idx < Len(job.artist_list)
  /\ LET artist == job.artist_list[step.idx + 1]
         pid == artist[PlatformKey(step.source)]
         s0 == [step EXCEPT !.idx = @ + 1, !.visited = Append(@, artist)]
     IN IF pid = Absent \/ artist.local_artist_id = Absent
          THEN LET h == Handler([s0 EXCEPT !.other_faults = @ + 1]) IN
               /\ step' = h.step /\ pc' = h.pc /\ ent' = NoEnt
          ELSE /\ step' = [s0 EXCEPT !.local_artist_id = artist.local_artist_id]
               /\ ent' = [NoEnt EXCEPT !.platform_id = pid, !.req = 1]
               /\ pc' = "request"
  /\ UNCHANGED <<http, spider, tables, now, uuid, job, faults, runs, history, writer_log, reference>>


\* what the traced adapter call can do: return a payload (the platforms report
\* the value job.reported throughout one job), raise the client's
\* typed error, or (a method without the request_ctx keyword) raise TypeError
\* before any HTTP request is made
CallOutcomes(src) ==
  IF AcceptsRequestCtx(src)
    THEN {[kind |-> "ok", v |-> job.reported], [kind |-> "APIError", v |-> Null]}
    ELSE {[kind |-> "TypeError", v |-> Null]}

\* leaving a `with RequestContext(...)` block at time t with exception exc in
\* flight: the row, whether the INSERT commits, and the exception that leaves
\* the block (__exit__ returns False; a failed INSERT raises from __exit__)
CloseScope(ctx, exc, storage_fault, t) ==
  LET row == RequestContext_exit(ctx, exc, t) IN
  [row |-> row,
   written |-> RequestRowAccepted(row) /\ ~storage_fault,
   exc |-> IF ~RequestRowAccepted(row) THEN [type |-> "IntegrityError", len |-> MsgLen]
           ELSE IF storage_fault THEN [type |-> "OperationalError", len |-> MsgLen]
           ELSE exc]

ScopeRecord(ctx, exc, call_raised, storage_fault, out) ==
  [request_id |-> ctx.request_id, run_id |-> ctx.run_id, step_run_id |-> ctx.step_run_id,
   raised |-> exc # NoExc, call_raised |-> call_raised,
   endpoint_set |-> ctx.endpoint # NullStr, status_set |-> ctx.http_status # Null,
   storage_fault |-> storage_fault, written |-> out.written,
   propagated |-> out.exc # NoExc, exc |-> exc, left |-> out.exc]

\* one `with RequestContext(...) as req_ctx:` block of a process_* loop
loop_request ==
  /\ pc = "request"
  /\ \E o \in CallOutcomes(step.source), sf \in BOOLEAN :
       LET nf == (IF o.kind = "APIError" THEN 1 ELSE 0) + (IF sf THEN 1 ELSE 0)
           ctx0 == RequestContext_enter(uuid + 1, job.run_id, step.step_run_id,
                     step.source, step.local_artist_id, ent.platform_id, now)
           ctx == IF o.kind = "ok" THEN AdapterRecords(ctx0, step.source, ent.req) ELSE ctx0
           exc == IF o.kind = "ok" THEN NoExc ELSE [type |-> o.kind, len |-> MsgLen]
           out == CloseScope(ctx, exc, sf, now + 1)
           s0 == [step EXCEPT !.remote_faults = @ + (IF o.kind = "APIError" THEN 1 ELSE 0),
                              !.other_faults = @ + (IF sf THEN 1 ELSE 0),
                              !.call_raises = @ + (IF o.kind = "ok" THEN 0 ELSE 1),
                              !.storage_faults = @ + (IF sf THEN 1 ELSE 0)]
       IN
       /\ faults + nf <= MaxFaults
       /\ sf => RequestRowAccepted(out.row)
       /\ faults' = faults + nf
       /\ api_request' = IF out.written THEN upsert_api_request(api_request, out.row)
                         ELSE api_request
       /\ write_log' = IF out.written
                         THEN LogWrite("api_request", out.row.request_id, "written")
                         ELSE write_log
       /\ scopes' = scopes \cup {ScopeRecord(ctx, exc, o.kind # "ok", sf, out)}
       /\ IF out.exc = NoExc
            THEN /\ step' = s0
                 /\ ent' = [ent EXCEPT !.raw = Append(@, o.v),
                                       !.request_ids = Append(@, uuid + 1),
                                       !.req = @ + 1]
                 /\ pc' = IF ent.req = NumRequests(step.source) THEN "store" ELSE "request"
            ELSE LET h == Handler(s0) IN
                 /\ step' = h.step /\ pc' = h.pc /\ ent' = NoEnt
  /\ uuid' = uuid + 1 /\ now' = now + 1
  /\ UNCHANGED <<http, spider, pipeline_run, pipeline_run_step, snapshots, artist_day, job, runs,
                 closed_steps, returned, writer_log, reference>>

\* the normalized record of the step's source
Normalize(src, e, a, d, t, run_id) ==
  IF src = "spotify" THEN normalize_spotify_daily(e.raw, a, e.platform_id, d, t, run_id)
  ELSE IF src = "wikipedia" THEN normalize_wiki_daily(e.raw, a, e.platform_id, d, t, run_id)
  ELSE normalize_youtube_daily(e.raw, a, e.platform_id, d, t, run_id)

\* rest of the loop body: fetched_at, normalize, upsert, success_count += 1
loop_store ==
  /\ pc = "store"
  /\ \E f \in {"none", "normalize", "storage"} :
       LET row == Normalize(step.source, ent, step.local_artist_id, job.run_day, now, job.run_id)
           bad == f # "none" \/ ~NormalizerAccepts(step.source)
       IN
       /\ f # "none" => faults < MaxFaults
       /\ faults' = faults + (IF f = "none" THEN 0 ELSE 1)
       /\ spotify_artist_daily' = IF ~bad /\ step.source = "spotify"
                                    THEN upsert_spotify_daily(spotify_artist_daily, row)
                                    ELSE spotify_artist_daily
       /\ wiki_artist_daily' = IF ~bad /\ step.source = "wikipedia"
                                 THEN upsert_wiki_daily(wiki_artist_daily, row)
                                 ELSE wiki_artist_daily
       /\ youtube_artist_daily' = IF ~bad /\ step.source = "youtube"
                                    THEN upsert_youtube_daily(youtube_artist_daily, row)
                                    ELSE youtube_artist_daily
       /\ IF bad
            THEN LET h == Handler([step EXCEPT
                                     !.other_faults = @ + (IF f = "none" THEN 0 ELSE 1),
                                     !.storage_faults = @ + (IF f = "storage" THEN 1 ELSE 0)])
                 IN step' = h.step /\ pc' = h.pc
            ELSE /\ step' = [step EXCEPT !.success_count = @ + 1]
                 /\ pc' = "loop"
       /\ writer_log' = IF bad THEN writer_log
                        ELSE [RecordUpsert(writer_log, step.source, row) EXCEPT
                                !.fetched = @ \cup
                                  {[source |-> step.source, step_run_id |-> step.step_run_id,
                                    local_artist_id |-> row.local_artist_id,
                                    day_date |-> row.day_date, fetched_at |-> row.fetched_at,
                                    request_ids |-> ent.request_ids]}]
  /\ ent' = NoEnt /\ now' = now + 1
  /\ UNCHANGED <<http, spider, lineage, artist_day, uuid, job, runs, history, reference>>

\* variant: the merge is called after the second step
AfterStep_merge_early(si) == IF si >= Len(StepOrder) - 1 THEN "merge" ELSE "setup"

\* daily_job: after the si-th process_* call returns, the next statement is
\* the next process_* call, or merge_daily_data after the last one
AfterStep(si) == IF si = Len(StepOrder) THEN "merge" ELSE "setup"

\* the StepContext block is left: by the end of the loop, or by an exception
process_data_close ==
  /\ \/ pc = "loop" /\ step.idx = Len(job.artist_list)
     \/ pc = "step_raise"
  /\ LET row == StepContext_exit(step, step.exc, now) IN
     /\ pipeline_run_step' = upsert_run_step_meta(pipeline_run_step, row)
     /\ write_log' = LogWrite("pipeline_run_step", step.step_run_id, row.status)
  /\ closed_steps' = closed_steps \cup
       {[step_run_id |-> step.step_run_id, run_id |-> step.run_id, source |-> step.source,
         entities |-> Len(job.artist_list), iterated |-> step.idx,
         artist_list |-> job.artist_list, visited |-> step.visited,
         remote_faults |-> step.remote_faults, other_faults |-> step.other_faults,
         call_raises |-> step.call_raises,
         storage_faults |-> step.storage_faults,
         success_count |-> step.success_count, error_count |-> step.error_count,
         exc |-> step.exc, left |-> StepContext_propagates(step.exc)]}
  /\ IF StepContext_propagates(step.exc) # NoExc
       THEN job' = [job EXCEPT !.exc = StepContext_propagates(step.exc)] /\ pc' = "run_exit"
       ELSE /\ job' = [job EXCEPT !.si = @ + 1]
            /\ pc' = AfterStep(job.si)
  /\ step' = NoStep /\ ent' = NoEnt /\ now' = now + 1
  /\ UNCHANGED <<http, spider, pipeline_run, api_request, snapshots, artist_day, uuid, faults, runs,
                 scopes, returned, writer_log, reference>>

\* daily_job, line 57: merge_daily_data(artist_list, conn, DAY_STR)
daily_job_merge ==
  /\ pc = "merge"
  /\ LET m == merge_daily_data(artist_day, job.artist_list, job.run_day,
                 spotify_artist_daily, wiki_artist_daily, youtube_artist_daily) IN
     /\ artist_day' = m.table
     /\ job' = [job EXCEPT !.exc = m.exc]
  /\ writer_log' = RecordMerge(writer_log, job.artist_list, job.run_day)
  /\ write_log' = LogWrite("artist_day", job.run_id, "merge")
  /\ pc' = "run_exit"
  /\ UNCHANGED <<http, spider, lineage, snapshots, now, uuid, step, ent, faults, runs, scopes,
                 closed_steps, returned, reference>>

\* RunContext.__exit__, then the exception (if any) leaves the job
run_close ==
  /\ \/ pc = "run_exit"
     \/ pc = "id_loop" /\ job.artist_list = <<>>
  /\ LET row == RunContext_exit(job, job.exc, now) IN
     /\ pipeline_run' = upsert_run_meta(pipeline_run, row)
     /\ write_log' = LogRunWrite(row)
  /\ returned' = returned \cup {[run_id |-> job.run_id, kind |-> job.kind, exc |-> job.exc,
                                  setup_failed |-> job.setup_failed,
                                  left |-> RunContext_propagates(job.exc)]}
  /\ job' = NoJob /\ pc' = "idle" /\ now' = now + 1
  /\ UNCHANGED <<http, spider, pipeline_run_step, api_request, snapshots, artist_day, uuid, step, ent,
                 faults, runs, scopes, closed_steps, writer_log, reference>>


\* -------------------------------------------------- resolve_identities.py
\* retrieve_and_store_artist_info, line 75: the RunContext block is entered
identity_begin ==
  /\ pc = "idle" /\ runs < MaxRuns
  /\ \E list \in ArtistLists :
       /\ faults + NumMissing(list) <= MaxFaults
       /\ faults' = faults + NumMissing(list)
       /\ job' = [kind |-> "identity", run_id |-> uuid + 1, run_day |-> IDENTITY_DAY,
                  artist_list |-> list, started_at |-> now, si |-> 0, exc |-> NoExc,
                  reported |-> 1, setup_failed |-> "none"]
  /\ pipeline_run' = upsert_run_meta(pipeline_run, RunContext_enter(uuid + 1, IDENTITY_DAY, now))
  /\ write_log' = LogRunWrite(RunContext_enter(uuid + 1, IDENTITY_DAY, now))
  /\ uuid' = uuid + 1 /\ runs' = runs + 1 /\ now' = now + 1
  /\ pc' = "id_loop"
  /\ UNCHANGED <<http, spider, pipeline_run_step, api_request, snapshots, artist_day, step, ent,
                 scopes, closed_steps, returned, writer_log, reference>>

\* does normalize_artist_info accept the job_run_id and request_id keywords
\* the identity job passes? Its signature has neither.
InfoNormalizerAccepts == FALSE

\* lines 79-97 for the first artist of the list: the Spotify lookup, traced
\* without a step; normalize_artist_info is called inside the traced block.
\* Nothing in the loop catches, so whatever is raised leaves the run scope.
identity_artist ==
  /\ pc = "id_loop" /\ job.artist_list # <<>>
  /\ LET artist == job.artist_list[1] IN
     IF artist.local_artist_id = Absent \/ artist.spotify_artist_id = Absent
       THEN /\ job' = [job EXCEPT !.exc = [type |-> "KeyError", len |-> MsgLen]]
            /\ UNCHANGED <<http, spider, api_request, write_log, scopes, faults, uuid, reference>>
       ELSE \E o \in CallOutcomes("spotify"), sf \in BOOLEAN :
              LET nf == (IF o.kind = "APIError" THEN 1 ELSE 0) + (IF sf THEN 1 ELSE 0)
                  ctx0 == RequestContext_enter(uuid + 1, job.run_id, Null, "spotify",
                            artist.local_artist_id, artist.spotify_artist_id, now)
                  ctx == IF o.kind = "ok" THEN AdapterRecords(ctx0, "spotify", 1) ELSE ctx0
                  exc == IF o.kind # "ok" THEN [type |-> o.kind, len |-> MsgLen]
                         ELSE IF ~InfoNormalizerAccepts THEN [type |-> "TypeError", len |-> MsgLen]
                         ELSE NoExc
                  out == CloseScope(ctx, exc, sf, now + 1)
              IN
              /\ faults + nf <= MaxFaults
              /\ sf => RequestRowAccepted(out.row)
              /\ out.exc # NoExc
              /\ faults' = faults + nf
              /\ api_request' = IF out.written THEN upsert_api_request(api_request, out.row)
                                ELSE api_request
              /\ write_log' = IF out.written
                                THEN LogWrite("api_request", out.row.request_id, "written")
                                ELSE write_log
              /\ scopes' = scopes \cup {ScopeRecord(ctx, exc, o.kind # "ok", sf, out)}
              /\ job' = [job EXCEPT !.exc = out.exc]
              /\ uuid' = uuid + 1
  /\ pc' = "run_exit" /\ now' = now + 1
  /\ UNCHANGED <<http, spider, pipeline_run, pipeline_run_step, snapshots, artist_day, step, ent, runs,
                 closed_steps, returned, writer_log, reference>>

\* ------------------------------------------------------------ the jobs
Next ==
  \/ daily_job_begin
  \/ process_data_setup_error
  \/ process_data_open
  \/ loop_read_ids
  \/ loop_request
  \/ loop_store
  \/ process_data_close
  \/ daily_job_merge
  \/ run_close
  \/ identity_begin
  \/ identity_artist

Spec == Init /\ [][Next]_vars


\* ------------------------------------------------- the writer API on its own
\* Calls of the snapshot writers and of merge_daily_data in any order, with
\* records of any artist, day and fetch time, whose metrics are a number or
\* None.  The run that fetched at time t is run t; the runs and artists the
\* records reference exist, so the foreign keys of the tables hold.
StoreMetrics == {MaxValue, Null}
FetchTimes == 1..MaxTime

\* artist lists handed to merge_daily_data: only local_artist_id is read
MergeLists == {l \in ArtistLists :
                 \A k \in DOMAIN l : l[k] \in {ArtistDict(k, "none"),
                                                ArtistDict(k, "local_artist_id")}}

store_upsert_spotify ==
  /\ writer_log.calls < MaxOps
  /\ \E a \in ArtistIds, d \in Days, t \in FetchTimes, v \in StoreMetrics :
       LET row == normalize_spotify_daily(<<v, v>>, a, a, d, t, t) IN
       /\ spotify_artist_daily' = upsert_spotify_daily(spotify_artist_daily, row)
       /\ writer_log' = RecordUpsert(writer_log, "spotify", row)
  /\ UNCHANGED <<http, spider, lineage, wiki_artist_daily, youtube_artist_daily, artist_day, control,
                 history, reference>>

store_upsert_wiki ==
  /\ writer_log.calls < MaxOps
  /\ \E a \in ArtistIds, d \in Days, t \in FetchTimes, v \in StoreMetrics :
       LET row == normalize_wiki_daily(<<v>>, a, a, d, t, t) IN
       /\ wiki_artist_daily' = upsert_wiki_daily(wiki_artist_daily, row)
       /\ writer_log' = RecordUpsert(writer_log, "wikipedia", row)
  /\ UNCHANGED <<http, spider, lineage, spotify_artist_daily, youtube_artist_daily, artist_day, control,
                 history, reference>>

store_upsert_youtube ==
  /\ writer_log.calls < MaxOps
  /\ \E a \in ArtistIds, d \in Days, t \in FetchTimes, v \in StoreMetrics :
       LET row == normalize_youtube_daily(<<v>>, a, a, d, t, t) IN
       /\ youtube_artist_daily' = upsert_youtube_daily(youtube_artist_daily, row)
       /\ writer_log' = RecordUpsert(writer_log, "youtube", row)
  /\ UNCHANGED <<http, spider, lineage, spotify_artist_daily, wiki_artist_daily, artist_day, control,
                 history, reference>>

store_merge ==
  /\ writer_log.calls < MaxOps
  /\ \E list \in MergeLists, d \in Days :
       /\ artist_day' = merge_daily_data(artist_day, list, d, spotify_artist_daily,
                           wiki_artist_daily, youtube_artist_daily).table
       /\ writer_log' = RecordMerge(writer_log, list, d)
  /\ UNCHANGED <<http, spider, lineage, snapshots, control, history, reference>>

NextStore ==
  \/ store_upsert_spotify
  \/ store_upsert_wiki
  \/ store_upsert_youtube
  \/ store_merge

SpecStore == Init /\ [][NextStore]_vars

\* --------------------------------------------------- the reference info
\* schema/artist_info.py: the fields of ArtistInfo besides the key.  A field
\* holds None (Null), an empty string or list (EmptyVal), or a value.
EmptyVal == 0

InfoMetadata == {"artist_name", "spotify_artist_id", "wiki_title", "youtube_channel_id",
                 "genres", "image_url", "spotify_url", "wikipedia_url",
                 "youtube_channel_url"}

InfoProvenance == {"spotify_fetched_at", "spotify_job_run_id", "spotify_request_id",
                   "wikipedia_fetched_at", "wikipedia_job_run_id", "wikipedia_request_id",
                   "youtube_fetched_at", "youtube_job_run_id", "youtube_request_id"}

InfoFields == InfoMetadata \cup InfoProvenance

\* ArtistInfo(local_artist_id=a): every Optional field None, genres []
ArtistInfo(a) ==
  [f \in InfoFields \cup {"local_artist_id"} |->
     IF f = "local_artist_id" THEN a ELSE IF f = "genres" THEN EmptyVal ELSE Null]

\* Python's `x or y`: y when x is None, "" or []
PyOr(x, y) == IF x = Null \/ x = EmptyVal THEN y ELSE x

\* join_artist_info(base, updates): wiki_title is not among the keywords
\* handed to ArtistInfo(...), so the result has its default
join_artist_info(base, updates) ==
  [f \in InfoFields \cup {"local_artist_id"} |->
     IF f = "local_artist_id" THEN base.local_artist_id
     ELSE IF f = "wiki_title" THEN ArtistInfo(base.local_artist_id).wiki_title
     ELSE PyOr(updates[f], base[f])]

\* the artist_info row of a record: genres is stored as its JSON text
InfoColumn(f) == IF f = "genres" THEN "genres_json" ELSE f

InfoRow(rec) ==
  [c \in {InfoColumn(f) : f \in InfoFields} \cup {"local_artist_id"} |->
     IF c = "genres_json" THEN (IF rec.genres = Null THEN EmptyVal ELSE rec.genres)
     ELSE rec[c]]

InfoRunRefs == {"spotify_job_run_id", "wikipedia_job_run_id", "youtube_job_run_id"}
InfoRequestRefs == {"spotify_request_id", "wikipedia_request_id", "youtube_request_id"}
InfoUnique == {"spotify_artist_id", "wiki_title", "youtube_channel_id"}

\* DDL_ARTIST_INFO: the nine provenance columns are NOT NULL, the run and
\* request ids are foreign keys into pipeline_run and api_request (init_db
\* turns foreign keys on), and each platform id has a unique index
InfoRowAccepted(table, rec, runT, reqT) ==
  /\ \A f \in InfoProvenance : rec[f] # Null
  /\ \A f \in InfoRunRefs : \E r \in runT : r.run_id = rec[f]
  /\ \A f \in InfoRequestRefs : \E r \in reqT : r.request_id = rec[f]
  /\ \A f \in InfoUnique :
       rec[f] # Null =>
         ~\E r \in table : r.local_artist_id # rec.local_artist_id /\ r[f] = rec[f]

\* upsert_artist_info: INSERT ... ON CONFLICT(local_artist_id) DO UPDATE SET
\* <every column> = excluded.<column>; a rejected row raises and changes nothing
upsert_artist_info(table, rec, runT, reqT) ==
  IF InfoRowAccepted(table, rec, runT, reqT)
    THEN {r \in table : r.local_artist_id # rec.local_artist_id} \cup {InfoRow(rec)}
    ELSE table

\* the records the reference-info calls are exercised with: a record with no
\* field known or one with every provenance field set, and one field changed
InfoValues == {Null, EmptyVal} \cup Values

Stamped(a) == [f \in InfoFields \cup {"local_artist_id"} |->
                 IF f \in InfoProvenance THEN 1 ELSE ArtistInfo(a)[f]]

Infos(a) ==
  {[b EXCEPT ![f] = v] : b \in {ArtistInfo(a), Stamped(a)},
                         f \in InfoFields, v \in InfoValues \ {Null}}
  \cup {ArtistInfo(a), Stamped(a)}
  \cup {[Stamped(a) EXCEPT ![f] = Null] : f \in InfoProvenance}

info_join ==
  /\ info_log.calls < MaxJoins
  /\ \E a \in ArtistIds : \E base \in Infos(a), updates \in Infos(a) :
       info_log' = [calls |-> info_log.calls + 1,
                    last_op |-> [kind |-> "join", base |-> base, updates |-> updates,
                                 result |-> join_artist_info(base, updates)]]
  /\ UNCHANGED <<http, spider, tables, control, history, writer_log, artist_info>>

\* the lineage a reference record points to: upsert_run_meta writes the row
\* of the identity run ...
info_run ==
  /\ pipeline_run = {} /\ uuid = 0
  /\ LET row == RunContext_enter(uuid + 1, IDENTITY_DAY, now) IN
       /\ pipeline_run' = upsert_run_meta(pipeline_run, row)
       /\ write_log' = LogRunWrite(row)
  /\ uuid' = uuid + 1
  /\ UNCHANGED <<http, spider, pipeline_run_step, api_request, snapshots, artist_day, now, pc, job,
                 step, ent, faults, runs, scopes, closed_steps, returned, writer_log,
                 reference>>

\* ... and upsert_api_request the row of a request traced in it
\* (step_run_id=None); api_request.run_id is a foreign key, the run must exist
info_request ==
  /\ api_request = {}
  /\ \E a \in ArtistIds :
       LET ctx == set_endpoint(RequestContext_enter(1, 1, Null, "spotify", a, a, now),
                               Endpoint("spotify", 1))
           row == RequestContext_exit(ctx, NoExc, now) IN
       /\ \E r \in pipeline_run : r.run_id = row.run_id
       /\ api_request' = upsert_api_request(api_request, row)
       /\ write_log' = LogWrite("api_request", row.request_id, "written")
  /\ UNCHANGED <<http, spider, pipeline_run, pipeline_run_step, snapshots, artist_day, control,
                 scopes, closed_steps, returned, writer_log, reference>>

info_upsert ==
  /\ info_log.calls < MaxInfoOps
  /\ \E a \in ArtistIds : \E rec \in Infos(a) :
       /\ artist_info' = upsert_artist_info(artist_info, rec, pipeline_run, api_request)
       /\ info_log' = [calls |-> info_log.calls + 1,
                       last_op |-> [kind |-> "upsert", record |-> rec,
                                    before |-> {r \in artist_info :
                                                  r.local_artist_id = rec.local_artist_id},
                                    accepted |-> InfoRowAccepted(artist_info, rec,
                                                    pipeline_run, api_request)]]
  /\ UNCHANGED <<http, spider, tables, control, history, writer_log>>

\* join_artist_info on its own, as a function of its two arguments
NextJoin == info_join

SpecJoin == Init /\ [][NextJoin]_vars

\* the reference-info writer on its own, after the writes of the lineage rows
\* that the records' provenance fields reference
NextInfo ==
  \/ info_run
  \/ info_request
  \/ info_upsert

SpecInfo == Init /\ [][NextInfo]_vars

\* the identity job run against a store that other callers of
\* upsert_artist_info write reference records to (records with every
\* provenance field set)
reference_upsert ==
  /\ info_log.calls < MaxInfoOps
  /\ \E a \in ArtistIds :
       LET rec == Stamped(a) IN
       /\ artist_info' = upsert_artist_info(artist_info, rec, pipeline_run, api_request)
       /\ info_log' = [calls |-> info_log.calls + 1,
                       last_op |-> [kind |-> "upsert", record |-> rec,
                                    before |-> {r \in artist_info :
                                                  r.local_artist_id = rec.local_artist_id},
                                    accepted |-> InfoRowAccepted(artist_info, rec,
                                                    pipeline_run, api_request)]]
  /\ UNCHANGED <<http, spider, tables, control, history, writer_log>>

NextIdentity ==
  \/ info_run
  \/ info_request
  \/ reference_upsert
  \/ identity_begin
  \/ identity_artist
  \/ run_close

SpecIdentity == Init /\ [][NextIdentity]_vars

\* ------------------------------------------------ the tracers on their own
\* `with RunContext(...)` and `with StepContext(...)` blocks around a body
\* that ends normally or raises an exception whose message has any length,
\* from the empty one to one past the limit of the run tracer.
MsgLens == {0, MsgLen, RUN_MSG_LIMIT, RUN_MSG_LIMIT + 1}

TracedExcs == {NoExc} \cup {[type |-> "RuntimeError", len |-> n] : n \in MsgLens}

tracer_run_enter ==
  /\ pc = "idle" /\ uuid < MaxScopes
  /\ job' = [NoJob EXCEPT !.kind = "traced", !.run_id = uuid + 1, !.run_day = DAY_STR,
                          !.started_at = now]
  /\ pipeline_run' = upsert_run_meta(pipeline_run, RunContext_enter(uuid + 1, DAY_STR, now))
  /\ write_log' = LogRunWrite(RunContext_enter(uuid + 1, DAY_STR, now))
  /\ uuid' = uuid + 1 /\ runs' = runs + 1 /\ now' = now + 1
  /\ pc' = "traced_run"
  /\ UNCHANGED <<http, spider, pipeline_run_step, api_request, snapshots, artist_day, step, ent, faults,
                 scopes, closed_steps, returned, writer_log, reference>>

tracer_step_enter ==
  /\ pc = "traced_run" /\ uuid < MaxScopes
  /\ \E src \in Sources :
       /\ step' = [NoStep EXCEPT !.source = src, !.step_run_id = uuid + 1,
                                 !.run_id = job.run_id, !.started_at = now]
       /\ pipeline_run_step' = upsert_run_step_meta(pipeline_run_step,
                                 StepContext_enter(job.run_id, uuid + 1, src, now))
       /\ write_log' = LogWrite("pipeline_run_step", uuid + 1,
                                StepContext_enter(job.run_id, uuid + 1, src, now).status)
  /\ uuid' = uuid + 1 /\ now' = now + 1
  /\ pc' = "traced_step"
  /\ UNCHANGED <<http, spider, pipeline_run, api_request, snapshots, artist_day, job, ent, faults, runs,
                 scopes, closed_steps, returned, writer_log, reference>>

\* the body of the step block ends with exc in flight (or none)
tracer_step_exit ==
  /\ pc = "traced_step"
  /\ \E exc \in TracedExcs :
       LET row == StepContext_exit(step, exc, now) IN
       /\ pipeline_run_step' = upsert_run_step_meta(pipeline_run_step, row)
       /\ write_log' = LogWrite("pipeline_run_step", step.step_run_id, row.status)
       /\ closed_steps' = closed_steps \cup
            {[step_run_id |-> step.step_run_id, run_id |-> step.run_id,
              source |-> step.source, entities |-> 0, iterated |-> 0,
              artist_list |-> <<>>, visited |-> <<>>,
              remote_faults |-> 0, other_faults |-> 0, call_raises |-> 0,
              storage_faults |-> 0, success_count |-> 0, error_count |-> 0,
              exc |-> exc, left |-> StepContext_propagates(exc)]}
       /\ job' = [job EXCEPT !.exc = StepContext_propagates(exc)]
       /\ pc' = IF StepContext_propagates(exc) = NoExc THEN "traced_run" ELSE "run_exit"
  /\ step' = NoStep /\ now' = now + 1
  /\ UNCHANGED <<http, spider, pipeline_run, api_request, snapshots, artist_day, uuid, ent, faults, runs,
                 scopes, returned, writer_log, reference>>

\* the body of the run block ends with exc in flight (or none), or the
\* exception that left a step block reaches the end of the run block
tracer_run_exit ==
  /\ pc \in {"traced_run", "run_exit"}
  /\ \E exc \in (IF pc = "run_exit" THEN {job.exc} ELSE TracedExcs) :
       LET row == RunContext_exit(job, exc, now) IN
       /\ pipeline_run' = upsert_run_meta(pipeline_run, row)
       /\ write_log' = LogRunWrite(row)
       /\ returned' = returned \cup {[run_id |-> job.run_id, kind |-> job.kind, exc |-> exc,
                                       setup_failed |-> job.setup_failed,
                                       left |-> RunContext_propagates(exc)]}
  /\ job' = NoJob /\ pc' = "idle" /\ now' = now + 1
  /\ UNCHANGED <<http, spider, pipeline_run_step, api_request, snapshots, artist_day, uuid, step, ent,
                 faults, runs, scopes, closed_steps, writer_log, reference>>

\* the process ends inside a block: no __exit__ runs, the rows written by
\* __enter__ stay as they are, and a later process starts from idle
tracer_stop ==
  /\ pc \in {"traced_run", "traced_step", "run_exit"}
  /\ job' = NoJob /\ step' = NoStep /\ pc' = "idle"
  /\ UNCHANGED <<http, spider, tables, now, uuid, ent, faults, runs, history, writer_log, reference>>

NextTrace ==
  \/ tracer_run_enter
  \/ tracer_step_enter
  \/ tracer_step_exit
  \/ tracer_run_exit
  \/ tracer_stop

SpecTrace == Init /\ [][NextTrace]_vars

\* --------------------------------------------- adapters/*.py: _request
\* status codes a platform answers with: success (with and without body),
\* unauthorized, not found, rate limited, server error
StatusCodes == {200, 204, 401, 404, 429, 503}

ServerErrors == {500, 502, 503, 504}

Is2xx(code) == code >= 200 /\ code < 300

\* SpotifyAPI._request: what the loop body does with the response of the
\* attempt-th iteration
SpotifyAPI_request(attempt, max_retries, code) ==
  IF code = 429 THEN "retry"
  ELSE IF code = 401 /\ attempt < max_retries THEN "refresh"
  ELSE IF code \in ServerErrors /\ attempt < max_retries THEN "retry"
  ELSE IF Is2xx(code) THEN "return"
  ELSE "raise"

\* WikipediaAPI._request
WikipediaAPI_request(attempt, max_retries, code) ==
  IF code = 429 THEN "retry"
  ELSE IF code \in ServerErrors /\ attempt < max_retries THEN "retry"
  ELSE IF Is2xx(code) THEN "return"
  ELSE "raise"

\* YouTubeAPI._request
YouTubeAPI_request(attempt, max_retries, code) ==
  IF code \in ServerErrors /\ attempt < max_retries THEN "retry"
  ELSE IF code = 429 THEN "retry"
  ELSE IF Is2xx(code) THEN "return"
  ELSE "raise"

OnResponse(client, attempt, max_retries, code) ==
  CASE client = "spotify" -> SpotifyAPI_request(attempt, max_retries, code)
    [] client = "wikipedia" -> WikipediaAPI_request(attempt, max_retries, code)
    [] client = "youtube" -> YouTubeAPI_request(attempt, max_retries, code)

\* variant: when the attempts are used up the call returns None
AfterRetries_returns_none(client) == "returned"

\* the statement after the for loop: raise <Client>APIError("... failed after retries")
AfterRetries(client) == "typed_error"

\* _request is called on a client built with some max_retries
request_begin ==
  /\ http.pos \in {"idle", "done"} /\ http.calls < MaxCalls
  /\ \E c \in Sources, m \in 0..MaxRetries :
       http' = [NoHttp EXCEPT !.client = c, !.max_retries = m, !.calls = http.calls + 1,
                              !.pos = IF c = "spotify" THEN "token" ELSE "loop"]
  /\ UNCHANGED <<tables, control, history, writer_log, reference, spider>>

\* SpotifyAPI._request, first line: _ensure_token() returns the cached token,
\* or posts to the token endpoint and raises SpotifyAPIError unless granted
request_token ==
  /\ http.pos = "token"
  /\ \E r \in {"cached", "granted", "refused"} :
       http' = IF r = "cached" THEN [http EXCEPT !.pos = "loop"]
               ELSE IF r = "granted"
                 THEN [http EXCEPT !.pos = "loop", !.token_posts = @ + 1]
               ELSE [http EXCEPT !.pos = "done", !.token_posts = @ + 1,
                                 !.outcome = "typed_error"]
  /\ UNCHANGED <<tables, control, history, writer_log, reference, spider>>

\* one iteration of `for attempt in range(max_retries + 1)`: the request is
\* sent and the response handled
request_attempt ==
  /\ http.pos = "loop"
  /\ \E code \in StatusCodes, granted \in BOOLEAN :
       LET d == OnResponse(http.client, http.attempt, http.max_retries, code)
           h == [http EXCEPT !.sent = @ + 1, !.codes = Append(@, code)]
           again == IF http.attempt = http.max_retries
                      THEN [h EXCEPT !.pos = "done", !.outcome = AfterRetries(http.client),
                                     !.last_err = d]
                      ELSE [h EXCEPT !.attempt = @ + 1, !.last_err = d]
       IN
       /\ d # "refresh" => granted
       /\ http' = CASE d = "return" -> [h EXCEPT !.pos = "done", !.outcome = "returned"]
                    [] d = "raise" -> [h EXCEPT !.pos = "done", !.outcome = "typed_error"]
                    [] d = "retry" -> again
                    [] d = "refresh" ->
                         IF granted THEN [again EXCEPT !.token_posts = @ + 1]
                         ELSE [h EXCEPT !.pos = "done", !.outcome = "typed_error",
                                        !.token_posts = @ + 1]
  /\ UNCHANGED <<tables, control, history, writer_log, reference, spider>>

NextRequest ==
  \/ request_begin
  \/ request_token
  \/ request_attempt

SpecRequest == Init /\ [][NextRequest]_vars

\* ------------------------------------- spotifly/spiders/spotifly_spider.py
\* Artist pages are numbered; page p has the URL of artist p, and a response
\* carries the URL it was requested with.  parse is a generator: its body
\* runs from one yield to the next each time the framework asks for the next
\* element, and the framework may start or resume another parse call in
\* between.
Pages == 1..MaxPages
StartPage == 1
Listeners == 1..MaxValue

\* the hrefs under "Fans also like" on a page, in page order
LinkLists == {<<>>} \cup {<<p>> : p \in Pages}
               \cup {l \in {<<p, q>> : p \in Pages, q \in Pages} : l[1] # l[2]}

RECURSIVE SkipVisited(_, _)
\* lines 54-56: the loop passes over the links that are in visited_artists
SkipVisited(links, visited) ==
  IF links = <<>> THEN <<>>
  ELSE IF Head(links) \in visited THEN SkipVisited(Tail(links), visited)
  ELSE links

\* yield scrapy.Request(url, callback=self.parse), dont_filter left False:
\* the scheduler drops a request whose URL it has seen, and a spider that is
\* closing downloads nothing new
Enqueue(sp, url) ==
  IF url \in sp.seen THEN sp
  ELSE IF sp.phase = "open"
    THEN [sp EXCEPT !.seen = @ \cup {url}, !.responses = @ \cup {url}]
  ELSE [sp EXCEPT !.seen = @ \cup {url}]

\* lines 50-60 from the top of the loop, for the parse call of page url with
\* links still to go: up to the next yielded request, or to the end
RunLinks(sp, url, links) ==
  LET rest == SkipVisited(links, sp.visited_artists) IN
  IF rest = <<>> THEN sp
  ELSE [Enqueue(sp, Head(rest)) EXCEPT
          !.parsing = @ \cup {[url |-> url, at |-> "request", links |-> Tail(rest)]}]

\* __init__, and the request for start_urls (made with dont_filter=True, so
\* the scheduler does not record it)
spider_open ==
  /\ spider.phase = "off"
  /\ \E m \in 0..MaxItems, lo \in 0..MaxValue, hi \in 1..MaxValue :
       spider' = [NoSpider EXCEPT !.phase = "open", !.max_artists = m,
                                  !.min_artist_listeners = lo,
                                  !.max_artist_listeners = hi,
                                  !.responses = {StartPage}]
  /\ UNCHANGED <<tables, control, history, writer_log, reference, http>>

\* parse(response) up to its first yield (lines 31-42, or on to line 57)
parse_call ==
  /\ spider.phase \in {"open", "closing"}
  /\ \E p \in spider.responses, l \in Listeners, links \in LinkLists :
       LET s0 == [spider EXCEPT !.responses = @ \ {p},
                                !.overlapped = @ \/ spider.parsing # {}]
           s1 == [s0 EXCEPT !.visited_artists = @ \cup {p}]
       IN
       spider' =
         IF p \in spider.visited_artists
           THEN [s0 EXCEPT !.assert_failed = TRUE]
         ELSE IF spider.counter >= spider.max_artists
           THEN [s1 EXCEPT !.phase = "closing"]
         ELSE IF l >= spider.min_artist_listeners /\ l <= spider.max_artist_listeners
           THEN [s1 EXCEPT !.items = Append(@, [artist_id |-> p, monthly_listeners |-> l]),
                           !.parsing = @ \cup {[url |-> p, at |-> "item", links |-> links]}]
         ELSE RunLinks(s1, p, links)
  /\ UNCHANGED <<tables, control, history, writer_log, reference, http>>

\* a suspended parse call is resumed: after the item, `self.counter += 1`
\* and the loop; after a request, the rest of the loop
parse_resume ==
  /\ \E g \in spider.parsing :
       LET s0 == [spider EXCEPT !.parsing = @ \ {g},
                                !.overlapped = @ \/ spider.parsing # {g}]
           s1 == IF g.at = "item" THEN [s0 EXCEPT !.counter = @ + 1] ELSE s0
       IN spider' = RunLinks(s1, g.url, g.links)
  /\ UNCHANGED <<tables, control, history, writer_log, reference, http>>

NextSpider ==
  \/ spider_open
  \/ parse_call
  \/ parse_resume

SpecSpider == Init /\ [][NextSpider]_vars

\* ================================================================= claims
RunCloses(id) == {i \in DOMAIN write_log : /\ write_log[i].tbl = "pipeline_run"
                                           /\ write_log[i].key = id
                                           /\ write_log[i].status # "in_progress"}
RunOpens(id) == {i \in DOMAIN write_log : /\ write_log[i].tbl = "pipeline_run"
                                          /\ write_log[i].key = id
                                          /\ write_log[i].status = "in_progress"}
RunExited(id) == id # job.run_id
StepRow(id) == CHOOSE r \in pipeline_run_step : r.step_run_id = id
RunRow(id) == CHOOSE r \in pipeline_run : r.run_id = id

\* C1: every run row is finalized exactly once and never re-opened: there is
\* at most one closing write per run id, no opening write follows it, and once
\* the run scope has exited (daily_job or the identity job, by return or by
\* exception) the row's status is completed or failed and its end time is not
\* before its start time.
C1_RunFinalizedOnce ==
  \A r \in pipeline_run :
    /\ Cardinality(RunCloses(r.run_id)) <= 1
    /\ \A i \in RunOpens(r.run_id), k \in RunCloses(r.run_id) : i < k
    /\ RunExited(r.run_id) =>
         /\ Cardinality(RunCloses(r.run_id)) = 1
         /\ r.status \in {"completed", "failed"}
         /\ r.ended_at # Null /\ r.ended_at >= r.started_at

\* a completed daily run and a failed identity run have both exited
C1_Witness ==
  /\ pc = "idle"
  /\ \E r1, r2 \in pipeline_run :
       /\ r1.run_day = DAY_STR /\ r1.status = "completed"
       /\ r2.run_day = IDENTITY_DAY /\ r2.status = "failed"

\* C2: every adapter call that raised inside a RequestContext scope of a step
\* is tallied in the step's error counter and leaves one api_request row with
\* ok = 0.
C2_FailedCallTalliedAndTraced ==
  /\ step.error_count >= step.call_raises
  /\ \A sc \in scopes :
       (sc.call_raised /\ sc.step_run_id # Null /\ ~sc.storage_fault) =>
         \E r \in api_request : r.request_id = sc.request_id /\ r.ok = 0

C4_OkIffNoException ==
  \A r \in api_request :
    \E sc \in scopes :
      /\ sc.request_id = r.request_id
      /\ r.ok \in {0, 1}
      /\ (r.ok = 0) <=> sc.raised
      /\ (r.ok = 0) => (r.error_type # NullStr /\ r.error_message # Null)
      /\ (r.ok = 1) => (r.error_type = NullStr /\ r.error_message = Null)

\* a row with ok = 0 whose scope had recorded HTTP status 200, next to a row
\* with ok = 1
C4_Witness ==
  /\ \E r \in api_request, sc \in scopes :
       sc.request_id = r.request_id /\ r.ok = 0 /\ sc.status_set /\ sc.raised
  /\ \E r \in api_request : r.ok = 1

\* C7: for every closed step whose counters are reported, success_count +
\* error_count equals the number of entities the loop iterated; the counters
\* are reported together or not at all.
C7_CountersSumToIterated ==
  \A c \in closed_steps :
    LET r == StepRow(c.step_run_id) IN
    /\ (r.success_count = Null) <=> (r.error_count = Null)
    /\ r.success_count # Null => r.success_count + r.error_count = c.iterated

\* a closed step with one success and one tallied error over two entities,
\* and a closed step that tallied an entity whose key was missing
C7_Witness ==
  /\ \E c \in closed_steps :
       LET r == StepRow(c.step_run_id) IN
       r.success_count = 1 /\ r.error_count = 1 /\ c.iterated = 2
  /\ \E c \in closed_steps :
       c.other_faults > 0 /\ c.call_raises = 0 /\ StepRow(c.step_run_id).error_count = 1

\* C8: a step in which an adapter call raised for an entity while the
\* environment failed at most that one remote call, and nothing else, closes
\* with error_count = 1, success_count = N - 1 and status completed.
C8_OneFailureOneError ==
  \A c \in closed_steps :
    (c.call_raises >= 1 /\ c.remote_faults <= 1 /\ c.other_faults = 0) =>
      LET r == StepRow(c.step_run_id) IN
      /\ r.error_count = 1
      /\ r.success_count = c.entities - 1
      /\ r.status = "completed"

\* C9: no error raised while processing one entity escapes the step scope:
\* the loop is the whole body of the StepContext block, so no step row ever
\* ends failed.
C9_NoEntityErrorEscapesStep ==
  /\ pc # "step_raise"
  /\ \A r \in pipeline_run_step : r.status # "failed"

\* C10: a run in which a store write failed inside an entity's
\* processing ends with status failed.
C10_StorageFailureFailsRun ==
  \A c \in closed_steps :
    (c.storage_faults > 0 /\ RunExited(c.run_id)) => RunRow(c.run_id).status = "failed"

\* ------------------------------------------------------------------ C5, C6
UnifiedRows(a, d) == {u \in artist_day : u.local_artist_id = a /\ u.day_date = d}

\* the columns of the unified row u that come from the snapshot row of src
CarriesFields(u, src, row) ==
  CASE src = "spotify" ->
         /\ u.job_run_spotify = row.job_run_id
         /\ u.spotify_followers_total = row.followers_total
         /\ u.spotify_popularity = row.popularity
         /\ u.spotify_top_track_popularity_mean = row.top_track_popularity_mean
    [] src = "wikipedia" ->
         /\ u.job_run_wiki = row.job_run_id
         /\ u.wiki_pageviews = row.pageviews
    [] src = "youtube" ->
         /\ u.job_run_youtube = row.job_run_id
         /\ u.youtube_subscribers = row.subscribers
         /\ u.youtube_total_views = row.total_views

EverFor(src, a, d) ==
  {r \in writer_log.ever[src] : r.local_artist_id = a /\ r.day_date = d}

LastFor(src, a, d) ==
  {r \in writer_log.last[src] : r.local_artist_id = a /\ r.day_date = d}

JustMerged == writer_log.last_op.kind = "merge"

\* C5 (as stated): once two snapshots of one (artist, day, source) fetched at
\* t1 < t2 have gone through the writer, in whichever order, the row a
\* following merge leaves for that artist and day carries the fields of the
\* t2 snapshot.
C5_LatestFetchWinsAnyOrder ==
  JustMerged =>
    \A src \in Sources, a \in Reached(writer_log.last_op.list) :
      \A r1, r2 \in EverFor(src, a, writer_log.last_op.day) :
        (r1.fetched_at < r2.fetched_at
           /\ \A q \in EverFor(src, a, writer_log.last_op.day) :
                 q.fetched_at < r2.fetched_at \/ q = r2)
        => \E u \in UnifiedRows(a, writer_log.last_op.day) : CarriesFields(u, src, r2)

\* C5 (amended): when the t2 snapshot is the one that went through the writer
\* last for its (artist, day, source), the row a following merge leaves
\* carries the fields of the t2 snapshot.
C5_LatestFetchWinsWhenWrittenLast ==
  JustMerged =>
    \A src \in Sources, a \in Reached(writer_log.last_op.list) :
      \A r1 \in EverFor(src, a, writer_log.last_op.day),
         r2 \in LastFor(src, a, writer_log.last_op.day) :
        r1.fetched_at < r2.fetched_at
        => /\ UnifiedRows(a, writer_log.last_op.day) # {}
           /\ \A u \in UnifiedRows(a, writer_log.last_op.day) : CarriesFields(u, src, r2)

\* two snapshots t1 < t2 with different fields were written, t2 last, and the
\* merge that followed left the t2 fields
C5_Witness ==
  /\ JustMerged
  /\ \E src \in Sources, a \in Reached(writer_log.last_op.list) :
       \E r1 \in EverFor(src, a, writer_log.last_op.day),
          r2 \in LastFor(src, a, writer_log.last_op.day) :
         /\ r1.fetched_at < r2.fetched_at
         /\ \E u \in UnifiedRows(a, writer_log.last_op.day) :
              CarriesFields(u, src, r2) /\ ~CarriesFields(u, src, r1)

\* the unified row that the current snapshot rows of (a, d) determine

DeterminedBySnapshots(u, a, d) ==
  /\ \A r \in SnapshotOf(spotify_artist_daily, a, d) : CarriesFields(u, "spotify", r)
  /\ \A r \in SnapshotOf(wiki_artist_daily, a, d) : CarriesFields(u, "wikipedia", r)
  /\ \A r \in SnapshotOf(youtube_artist_daily, a, d) : CarriesFields(u, "youtube", r)
  /\ SnapshotOf(spotify_artist_daily, a, d) = {}
       => /\ u.job_run_spotify = Null /\ u.spotify_followers_total = Null
          /\ u.spotify_popularity = Null /\ u.spotify_top_track_popularity_mean = Null
  /\ SnapshotOf(wiki_artist_daily, a, d) = {}
       => u.job_run_wiki = Null /\ u.wiki_pageviews = Null
  /\ SnapshotOf(youtube_artist_daily, a, d) = {}
       => /\ u.job_run_youtube = Null /\ u.youtube_subscribers = Null
          /\ u.youtube_total_views = Null

RemergeLeaves ==
  merge_daily_data(artist_day, writer_log.last_op.list, writer_log.last_op.day,
                   spotify_artist_daily, wiki_artist_daily, youtube_artist_daily).table

\* C6: running the merge again over unchanged snapshot tables leaves the
\* unified table identical, and after a merge the unified row of every artist
\* it reached is determined by the current snapshot rows alone, however many
\* merges and writes came before.
C6_MergeIdempotent ==
  JustMerged =>
    /\ RemergeLeaves = artist_day
    /\ \A a \in Reached(writer_log.last_op.list) :
         /\ Cardinality(UnifiedRows(a, writer_log.last_op.day)) <= 1
         /\ \A u \in UnifiedRows(a, writer_log.last_op.day) :
              DeterminedBySnapshots(u, a, writer_log.last_op.day)
         /\ (SnapshotOf(spotify_artist_daily, a, writer_log.last_op.day) # {}
               \/ SnapshotOf(wiki_artist_daily, a, writer_log.last_op.day) # {}
               \/ SnapshotOf(youtube_artist_daily, a, writer_log.last_op.day) # {})
            => UnifiedRows(a, writer_log.last_op.day) # {}

\* a second merge ran, and the artist it reached has a unified row built from
\* a snapshot
C6_Witness ==
  /\ JustMerged
  /\ writer_log.merges >= 2
  /\ \E a \in Reached(writer_log.last_op.list) :
       \E u \in UnifiedRows(a, writer_log.last_op.day) :
         u.job_run_spotify # Null \/ u.job_run_wiki # Null \/ u.job_run_youtube # Null

\* ----------------------------------------------------------------- C11, C12
\* C11: a run in which a step could not begin (its platform client could not
\* be constructed) ends failed, and the store holds a failed step row of that
\* run, named after the step, with the error kind and message.
C11_SetupFailureLeavesFailedStep ==
  \A j \in returned :
    j.setup_failed # "none" =>
      /\ RunRow(j.run_id).status = "failed"
      /\ \E r \in pipeline_run_step :
           /\ r.run_id = j.run_id /\ r.step_name = j.setup_failed
           /\ r.status = "failed"
           /\ r.error_type # NullStr /\ r.error_message # Null

\* C12: a run or step scope left by an exception leaves its row failed with
\* the exception's kind and message, and the exception leaves the scope; a
\* scope that ends normally leaves its row completed with null error fields,
\* and nothing is raised.
C12_TracerRecordsAndReraises ==
  /\ \A c \in closed_steps :
       LET r == StepRow(c.step_run_id) IN
       IF c.exc # NoExc
         THEN /\ r.status = "failed" /\ r.error_type = c.exc.type
              /\ r.error_message = c.exc.len /\ c.left = c.exc
         ELSE /\ r.status = "completed" /\ r.error_type = NullStr
              /\ r.error_message = Null /\ c.left = NoExc
  /\ \A j \in returned :
       LET r == RunRow(j.run_id) IN
       IF j.exc # NoExc
         THEN /\ r.status = "failed" /\ r.error_type = j.exc.type
              /\ r.error_message = j.exc.len /\ j.left = j.exc
         ELSE /\ r.status = "completed" /\ r.error_type = NullStr
              /\ r.error_message = Null /\ j.left = NoExc

\* a step scope and its run were both left by an exception, and another run
\* ended normally
C12_Witness ==
  /\ \E c \in closed_steps, j \in returned :
       c.exc # NoExc /\ j.run_id = c.run_id /\ j.left = c.exc
  /\ \E j \in returned : j.exc = NoExc /\ j.kind = "daily"

\* ---------------------------------------------------------------------- C13
\* C13: every exception raised inside a RequestContext scope leaves the scope
\* again, the same exception, once the trace row is written.
C13_RequestExceptionReraised ==
  \A sc \in scopes :
    (sc.raised /\ ~sc.storage_fault) =>
      /\ sc.left = sc.exc
      /\ \E r \in api_request : r.request_id = sc.request_id

\* ---------------------------------------------------------------------- C14
RunWrites(id) == {i \in DOMAIN write_log : write_log[i].tbl = "pipeline_run"
                                           /\ write_log[i].key = id}

\* C14: each run is written to the run table exactly twice: once at open,
\* with status in_progress and null end time and duration, and once at close,
\* with a final status and the end time and duration set.  While the run is
\* open only the first write exists; no run id is written that has no row.
C14_TwoWritesPerRun ==
  /\ \A i \in DOMAIN write_log :
       write_log[i].tbl = "pipeline_run" =>
         \E r \in pipeline_run : r.run_id = write_log[i].key
  /\ \A r \in pipeline_run :
       LET w == RunWrites(r.run_id)
           first == CHOOSE i \in w : \A k \in w : i <= k
           last == CHOOSE i \in w : \A k \in w : k <= i
       IN
       /\ w # {}
       /\ write_log[first].status = "in_progress"
       /\ write_log[first].ended_at = Null /\ write_log[first].duration_ms = Null
       /\ Cardinality(w) = IF RunExited(r.run_id) THEN 2 ELSE 1
       /\ RunExited(r.run_id) =>
            /\ write_log[last].status \in {"completed", "failed"}
            /\ write_log[last].ended_at # Null /\ write_log[last].duration_ms # Null
            /\ write_log[last].ended_at = r.ended_at

\* a daily run that went through all its steps and the merge has ended, and
\* the run table was written twice for it
C14_Witness ==
  \E j \in returned :
    /\ j.kind = "daily" /\ j.exc = NoExc
    /\ Cardinality({c \in closed_steps : c.run_id = j.run_id}) = Len(StepOrder)
    /\ Cardinality(RunWrites(j.run_id)) = 2

\* ------------------------------------------------------------- C15 .. C18
\* the columns of the unified row u that belong to src are all NULL
NullFields(u, src) ==
  CASE src = "spotify" ->
         /\ u.job_run_spotify = Null /\ u.spotify_followers_total = Null
         /\ u.spotify_popularity = Null /\ u.spotify_top_track_popularity_mean = Null
    [] src = "wikipedia" -> u.job_run_wiki = Null /\ u.wiki_pageviews = Null
    [] src = "youtube" ->
         /\ u.job_run_youtube = Null /\ u.youtube_subscribers = Null
         /\ u.youtube_total_views = Null

RunRef(u, src) ==
  CASE src = "spotify" -> u.job_run_spotify
    [] src = "wikipedia" -> u.job_run_wiki
    [] src = "youtube" -> u.job_run_youtube

Present(a, d) == {src \in Sources : SnapshotOf(SnapshotTable(src), a, d) # {}}

\* C15: after a merge, an artist it reached for whom some but not all of the
\* sources hold a snapshot of the day has a unified row; the row carries the
\* run id and metrics of each present source and NULL for each missing one.
C15_PartialSourcesMerged ==
  JustMerged =>
    \A a \in Reached(writer_log.last_op.list) :
      LET d == writer_log.last_op.day IN
      (Present(a, d) # {} /\ Present(a, d) # Sources) =>
        /\ UnifiedRows(a, d) # {}
        /\ \A u \in UnifiedRows(a, d), src \in Sources :
             IF src \in Present(a, d)
               THEN \A r \in SnapshotOf(SnapshotTable(src), a, d) : CarriesFields(u, src, r)
               ELSE NullFields(u, src)

\* a merge reached an artist with a Spotify and a YouTube snapshot of the day
\* and no Wikipedia one, and left a row for it
C15_Witness ==
  /\ JustMerged
  /\ \E a \in Reached(writer_log.last_op.list) :
       /\ Present(a, writer_log.last_op.day) = {"spotify", "youtube"}
       /\ \E u \in UnifiedRows(a, writer_log.last_op.day) :
            u.spotify_followers_total # Null /\ u.youtube_subscribers # Null

\* C16: an (artist, day) for which no source was ever handed a snapshot has
\* no unified row, whatever writes and merges were made.
C16_NoSnapshotNoRow ==
  \A a \in ArtistIds, d \in Days :
    (\A src \in Sources : EverFor(src, a, d) = {}) => UnifiedRows(a, d) = {}

\* a merge reached an artist that has no snapshot of the merged day, while
\* the same artist has a snapshot of another day
C16_Witness ==
  /\ JustMerged
  /\ \E a \in Reached(writer_log.last_op.list) :
       /\ \A src \in Sources : EverFor(src, a, writer_log.last_op.day) = {}
       /\ \E src \in Sources, d \in Days : EverFor(src, a, d) # {}
       /\ UnifiedRows(a, writer_log.last_op.day) = {}

FromSnapshot(u, src) ==
  \E r \in writer_log.seen[src] :
    /\ r.local_artist_id = u.local_artist_id /\ r.day_date = u.day_date
    /\ r \in writer_log.ever[src]
    /\ CarriesFields(u, src, r)

\* C17: every source's group of columns in a unified row of (artist, day)
\* either carries the columns of a snapshot row of that artist, day and
\* source that a merge found in the snapshot table, or is all NULL because a
\* merge found none; at least one group carries a snapshot.
C17_UnifiedFromOwnSnapshots ==
  \A u \in artist_day :
    /\ \A src \in Sources :
         \/ FromSnapshot(u, src)
         \/ /\ NullFields(u, src)
            /\ <<src, u.local_artist_id, u.day_date>> \in writer_log.missed
    /\ \E src \in Sources : FromSnapshot(u, src)

\* unified rows exist for the same artist on two days, built from snapshots
\* fetched at different times
C17_Witness ==
  \E u1, u2 \in artist_day :
    /\ u1.local_artist_id = u2.local_artist_id /\ u1.day_date # u2.day_date
    /\ \E src \in Sources :
         RunRef(u1, src) # Null /\ RunRef(u2, src) # Null /\ RunRef(u1, src) # RunRef(u2, src)

\* C18: each snapshot table holds at most one row per (artist, day), and the
\* row is, in every column, the record handed to the writer last for that
\* (artist, day).
C18_SnapshotIsLastUpsert ==
  \A src \in Sources :
    /\ SnapshotTable(src) = writer_log.last[src]
    /\ \A r1, r2 \in SnapshotTable(src) : SameKey(r1, r2) => r1 = r2

\* a record with a NULL metric replaced a stored record whose metric was set
C18_Witness ==
  \E old \in writer_log.ever["wikipedia"], r \in wiki_artist_daily :
    SameKey(old, r) /\ old.pageviews # Null /\ r.pageviews = Null

\* ----------------------------------------------------------------- C19, C20
\* C19: for every field of the reference record, if base or updates holds a
\* non-null value, join_artist_info(base, updates) holds a non-null value
\* there: the one of updates when that is non-null, else the one of base.
C19_JoinKeepsKnownValues ==
  info_log.last_op.kind = "join" =>
    LET o == info_log.last_op IN
    \A f \in InfoFields :
      (o.base[f] # Null \/ o.updates[f] # Null) =>
        /\ o.result[f] # Null
        /\ o.result[f] = IF o.updates[f] # Null THEN o.updates[f] ELSE o.base[f]

\* C20: when the stored reference record of an artist holds a non-null value
\* in a column and a record with None in that field is written for the
\* artist, the stored record still holds the old value afterwards.
C20_KnownValueSurvivesNull ==
  info_log.last_op.kind = "upsert" =>
    LET o == info_log.last_op IN
    \A old \in o.before, f \in InfoFields :
      (old[InfoColumn(f)] # Null /\ o.record[f] = Null) =>
        \E r \in artist_info :
          /\ r.local_artist_id = o.record.local_artist_id
          /\ r[InfoColumn(f)] = old[InfoColumn(f)]

\* ----------------------------------------------------------------- C21..C30
StepWrites(id) == {i \in DOMAIN write_log : /\ write_log[i].tbl = "pipeline_run_step"
                                            /\ write_log[i].key = id}
StepCloses(id) == {i \in StepWrites(id) : write_log[i].status # "in_progress"}
RequestWrites(id) == {i \in DOMAIN write_log : /\ write_log[i].tbl = "api_request"
                                               /\ write_log[i].key = id}

\* C21: every request row of a step is written before the step's closing
\* write and before the closing write of its run; every write of a step row
\* (opening or closing) comes before the closing write of its run.  So no
\* request is written under a closed step, no step under a closed run.
C21_WritesNestInOrder ==
  /\ \A sc \in scopes : \A i \in RequestWrites(sc.request_id) :
       /\ sc.step_run_id # Null => \A k \in StepCloses(sc.step_run_id) : i < k
       /\ \A k \in RunCloses(sc.run_id) : i < k
  /\ \A st \in pipeline_run_step :
       \A i \in StepWrites(st.step_run_id), k \in RunCloses(st.run_id) : i < k

\* a run has closed after a step of it closed after a request of that step
\* was written
C21_Witness ==
  \E sc \in scopes :
    /\ sc.step_run_id # Null
    /\ RequestWrites(sc.request_id) # {}
    /\ StepCloses(sc.step_run_id) # {}
    /\ RunCloses(sc.run_id) # {}

MergeCalls(id) == {i \in DOMAIN write_log : /\ write_log[i].tbl = "artist_day"
                                            /\ write_log[i].key = id}

\* C22: in a daily job, merge_daily_data is called only after each of the
\* three per-source steps of the run has closed, after the run was opened and
\* before it is closed; a run in which a step scope raised (or a step could
\* not begin) has no merge call.
C22_MergeAfterAllSteps ==
  /\ \A r \in pipeline_run : \A i \in MergeCalls(r.run_id) :
       /\ \A src \in Sources :
            \E c \in closed_steps :
              /\ c.run_id = r.run_id /\ c.source = src /\ c.left = NoExc
              /\ \E k \in StepCloses(c.step_run_id) : k < i
       /\ \E k \in RunOpens(r.run_id) : k < i
       /\ \A k \in RunCloses(r.run_id) : i < k
  /\ \A c \in closed_steps : c.left # NoExc => MergeCalls(c.run_id) = {}
  /\ \A j \in returned : j.setup_failed # "none" => MergeCalls(j.run_id) = {}

\* one daily job has merged and closed, another ended by a raising step
C22_Witness ==
  /\ \E r \in pipeline_run : MergeCalls(r.run_id) # {} /\ RunCloses(r.run_id) # {}
  /\ \E c \in closed_steps : c.left # NoExc /\ RunCloses(c.run_id) # {}

StepOpens(id) == {i \in StepWrites(id) : write_log[i].status = "in_progress"}
StepRank(name) == CHOOSE k \in DOMAIN StepOrder : StepName(StepOrder[k]) = name

\* C23: the steps of a run are opened in the order Spotify, Wikipedia,
\* YouTube, each after the one before it has closed; and a step that has
\* closed has gone through the artists of the list one by one in list order,
\* to the last one, whatever failed for single artists on the way.
C23_FixedOrderNoSkips ==
  /\ \A s1 \in pipeline_run_step, s2 \in pipeline_run_step :
       (s1.run_id = s2.run_id /\ StepRank(s1.step_name) < StepRank(s2.step_name)) =>
         \A i \in StepOpens(s2.step_run_id) :
           \E k \in StepCloses(s1.step_run_id) : k < i
  /\ \A s \in pipeline_run_step :
       \A k \in 1..(StepRank(s.step_name) - 1) :
         \E p \in pipeline_run_step :
           p.run_id = s.run_id /\ p.step_name = StepName(StepOrder[k])
  /\ \A c \in closed_steps : c.visited = c.artist_list

InProgress(table) == {r \in table : r.status = "in_progress"}

\* C24: at every point of a run (where the process may stop), the store shows
\* every step that has closed with status completed or failed, every request
\* scope that has exited as a row with its ok flag, and status in_progress on
\* exactly the run that is open and the step that is open, and on no other row.
C24_StopLeavesOnlyOpenInProgress ==
  /\ \A c \in closed_steps :
       StepRow(c.step_run_id).status = IF c.exc = NoExc THEN "completed" ELSE "failed"
  /\ \A sc \in scopes :
       ~sc.storage_fault =>
         \E r \in api_request : /\ r.request_id = sc.request_id
                                /\ r.ok = IF sc.raised THEN 0 ELSE 1
  /\ \A j \in returned :
       RunRow(j.run_id).status = IF j.exc = NoExc THEN "completed" ELSE "failed"
  /\ {r.run_id : r \in InProgress(pipeline_run)} = {job.run_id} \ {Null}
  /\ {r.step_run_id : r \in InProgress(pipeline_run_step)} = {step.step_run_id} \ {Null}

\* C25: the row of a closed step has both counters NULL exactly when neither
\* counter was incremented in the step, and otherwise the two values the
\* counters reached (one of them may be 0); no step row has one counter NULL
\* and the other not, and the row of an open step has both NULL.
C25_CountersNullTogether ==
  /\ \A c \in closed_steps :
       LET r == StepRow(c.step_run_id) IN
       /\ (r.success_count = Null /\ r.error_count = Null)
            <=> (c.success_count = 0 /\ c.error_count = 0)
       /\ (c.success_count > 0 \/ c.error_count > 0) =>
            (r.success_count = c.success_count /\ r.error_count = c.error_count)
  /\ \A r \in pipeline_run_step :
       /\ (r.success_count = Null) <=> (r.error_count = Null)
       /\ r.status = "in_progress" => (r.success_count = Null /\ r.error_count = Null)

\* a step closed without any increment next to a step closed with successes
\* and no error, while a third step is open
C25_Witness ==
  /\ \E c \in closed_steps :
       c.success_count = 0 /\ c.error_count = 0 /\ StepRow(c.step_run_id).success_count = Null
  /\ \E c \in closed_steps :
       /\ c.success_count > 0 /\ c.error_count = 0
       /\ StepRow(c.step_run_id).error_count = 0
  /\ InProgress(pipeline_run_step) # {}

\* C26: whatever the length of the message of the exception that leaves a
\* step scope or a run scope, the error_message stored in the step row and in
\* the run row is no longer than the limit.
C26_StoredMessageBounded ==
  /\ \A r \in pipeline_run : r.error_message <= RUN_MSG_LIMIT
  /\ \A r \in pipeline_run_step : r.error_message <= RUN_MSG_LIMIT

\* C27: every stored request row has http_status NULL, whether or not
\* set_http_status was called in its scope and whatever value it was given.
C27_HttpStatusAlwaysNull ==
  \A r \in api_request : r.http_status = Null

\* the stored row of a scope in which the adapter called set_http_status(200)
C27_Witness ==
  \E sc \in scopes :
    /\ sc.status_set /\ sc.written
    /\ \E r \in api_request : r.request_id = sc.request_id /\ r.ok = 1

\* C28: when snapshots of one (artist, day, source) written by different runs
\* have gone through the writer and a merge follows, the stored snapshot and
\* the unified row's run reference for that source both name the run whose
\* snapshot was written last; and in every unified row, each source's run
\* reference is the job_run_id of the very snapshot whose metrics the row
\* carries for that source (or NULL, with NULL metrics, when it carries none).
C28_RunRefFollowsSnapshot ==
  /\ JustMerged =>
       \A src \in Sources, a \in Reached(writer_log.last_op.list) :
         LET d == writer_log.last_op.day IN
         \A r1 \in EverFor(src, a, d), r2 \in LastFor(src, a, d) :
           r1.job_run_id # r2.job_run_id =>
             /\ SnapshotOf(SnapshotTable(src), a, d) # {}
             /\ \A sn \in SnapshotOf(SnapshotTable(src), a, d) : sn.job_run_id = r2.job_run_id
             /\ UnifiedRows(a, d) # {}
             /\ \A u \in UnifiedRows(a, d) : RunRef(u, src) = r2.job_run_id
  /\ \A u \in artist_day, src \in Sources :
       IF RunRef(u, src) = Null
         THEN NullFields(u, src)
         ELSE \E r \in writer_log.seen[src] :
                /\ r.local_artist_id = u.local_artist_id /\ r.day_date = u.day_date
                /\ r.job_run_id = RunRef(u, src)
                /\ CarriesFields(u, src, r)

\* a unified row built from the first run's snapshot was rebuilt by a merge
\* after a second run had overwritten the snapshot, and names the second run
C28_Witness ==
  /\ JustMerged
  /\ writer_log.merges >= 2
  /\ \E src \in Sources, a \in Reached(writer_log.last_op.list) :
       LET d == writer_log.last_op.day IN
       \E r1 \in EverFor(src, a, d) \cap writer_log.seen[src], r2 \in LastFor(src, a, d) :
         /\ r1.job_run_id # r2.job_run_id
         /\ \E u \in UnifiedRows(a, d) : RunRef(u, src) = r2.job_run_id

RequestRefs(src, r) == {r[c] : c \in RequestColumns(src)}

\* C29: every stored snapshot row is the row of an entity fetch that a step
\* completed, and its request-id column(s) hold the ids of the request rows
\* written for that entity in that step.
C29_SnapshotNamesItsRequests ==
  \A src \in Sources : \A r \in SnapshotTable(src) :
    \E e \in writer_log.fetched :
      /\ e.source = src /\ SameKey(e, r) /\ e.fetched_at = r.fetched_at
      /\ RequestRefs(src, r) = {e.request_ids[k] : k \in DOMAIN e.request_ids}
      /\ \A id \in RequestRefs(src, r) :
           \E q \in api_request : q.request_id = id /\ q.step_run_id = e.step_run_id

\* C30: a step that opens a run, whatever runs of that day the store already
\* holds (completed, failed or still in_progress), adds one row with an id no
\* existing row has, in_progress and of the run's day, and leaves every
\* existing run row as it was.
C30_OpenAddsFreshRun ==
  [][(job.run_id = Null /\ job'.run_id # Null) =>
       /\ \A r \in pipeline_run : r \in pipeline_run'
       /\ \A r \in pipeline_run : r.run_id # job'.run_id
       /\ \E r \in pipeline_run' : /\ r.run_id = job'.run_id
                                   /\ r.run_day = job'.run_day
                                   /\ r.status = "in_progress"
       /\ Cardinality(pipeline_run') = Cardinality(pipeline_run) + 1]_vars

\* a run is open while the store holds a completed, a failed and an abandoned
\* in_progress run of the same day
C30_Witness ==
  /\ job.run_id # Null
  /\ \E r \in pipeline_run : r.run_id = job.run_id /\ r.status = "in_progress"
  /\ \E r1, r2, r3 \in pipeline_run :
       /\ r1.run_day = job.run_day /\ r1.status = "completed"
       /\ r2.run_day = job.run_day /\ r2.status = "failed"
       /\ r3.run_day = job.run_day /\ r3.status = "in_progress" /\ r3.run_id # job.run_id

\* ------------------------------------------------------------ claims C31..C39
Finalized(table) == {r \in table : r.status # "in_progress"}

\* C31: no step of any job (further steps, snapshot upserts, the merge, a
\* second run of the same day) modifies or deletes a request row that is
\* stored, or a run or step row whose status is completed or failed.
C31_LineageImmutable ==
  [][/\ api_request \subseteq api_request'
     /\ Finalized(pipeline_run) \subseteq pipeline_run'
     /\ Finalized(pipeline_run_step) \subseteq pipeline_run_step']_vars

\* a second daily run of the same day has fetched again, stored a snapshot
\* and merged, next to the finalized run, step and request rows of the first
C31_Witness ==
  /\ job.kind = "daily" /\ pc = "run_exit" /\ writer_log.merges = 2
  /\ \E r \in Finalized(pipeline_run) :
       /\ r.run_id # job.run_id /\ r.run_day = job.run_day
       /\ \E s \in Finalized(pipeline_run_step) : s.run_id = r.run_id
       /\ \E q \in api_request : q.run_id = r.run_id
  /\ \E q \in api_request : q.run_id = job.run_id
  /\ \E w \in writer_log.fetched :
       \E s \in pipeline_run_step : s.step_run_id = w.step_run_id /\ s.run_id = job.run_id

StepScopes(id) == {s \in scopes : s.step_run_id = id}

\* C32: within one step no remote call is repeated: the request scopes opened
\* under a step number at most NumRequests per entity the loop has reached,
\* and two stored request rows of one step for the same entity and endpoint
\* are the same row, whether calls succeeded or raised.
C32_OneAttemptPerEntityEndpoint ==
  /\ \A c \in closed_steps :
       Cardinality(StepScopes(c.step_run_id)) <= NumRequests(c.source) * c.iterated
  /\ step.step_run_id # Null =>
       Cardinality(StepScopes(step.step_run_id)) <= NumRequests(step.source) * step.idx
  /\ \A q1, q2 \in api_request :
       (/\ q1.step_run_id # Null /\ q1.step_run_id = q2.step_run_id
        /\ q1.local_artist_id = q2.local_artist_id /\ q1.endpoint = q2.endpoint)
         => q1 = q2

\* a Spotify step over two entities has closed: one entity has a stored row
\* for each of the two endpoints, and a call of the step raised
C32_Witness ==
  \E c \in closed_steps :
    /\ c.source = "spotify" /\ c.entities = 2 /\ c.iterated = 2
    /\ \E q1, q2 \in api_request :
         /\ q1.step_run_id = c.step_run_id /\ q2.step_run_id = c.step_run_id
         /\ q1.local_artist_id = q2.local_artist_id /\ q1.endpoint # q2.endpoint
    /\ \E s \in StepScopes(c.step_run_id) : s.call_raised

\* the unified rows a merge call for (list, d) may touch
InMergeFrame(r, list, d) ==
  r.day_date = d /\ \E k \in DOMAIN list : list[k].local_artist_id = r.local_artist_id

\* C33: a call of merge_daily_data(list, d) leaves the three snapshot tables,
\* the run, step and request tables and the reference-info table as they
\* were, and neither adds, changes nor removes a unified row of another day
\* or of an entity that is not in the list.
C33_MergeFrame ==
  [][writer_log'.merges = writer_log.merges + 1 =>
       LET list == writer_log'.last_op.list
           d == writer_log'.last_op.day
       IN /\ UNCHANGED <<spotify_artist_daily, wiki_artist_daily, youtube_artist_daily>>
          /\ UNCHANGED <<pipeline_run, pipeline_run_step, api_request, artist_info>>
          /\ {r \in artist_day : ~InMergeFrame(r, list, d)}
               = {r \in artist_day' : ~InMergeFrame(r, list, d)}]_vars

\* a merge has just written the unified row of a listed entity for its day,
\* while the table holds a row of another day and a row of an unlisted entity
C33_Witness ==
  /\ writer_log.last_op.kind = "merge"
  /\ LET list == writer_log.last_op.list
         d == writer_log.last_op.day
     IN /\ \E r \in artist_day : InMergeFrame(r, list, d)
        /\ \E r \in artist_day : r.day_date # d
        /\ \E r \in artist_day :
             \A k \in DOMAIN list : list[k].local_artist_id # r.local_artist_id

\* C34: in every reachable state every step row names a run row that
\* exists, every request row names a run row that exists, and a request row
\* with a step id names a step row that exists and belongs to the same run.
C34_LineageReferences ==
  /\ \A s \in pipeline_run_step : \E r \in pipeline_run : r.run_id = s.run_id
  /\ \A q \in api_request :
       /\ \E r \in pipeline_run : r.run_id = q.run_id
       /\ q.step_run_id # Null =>
            \E s \in pipeline_run_step :
              s.step_run_id = q.step_run_id /\ s.run_id = q.run_id

\* request rows of both kinds are stored: one filed under a step of a daily
\* run, one filed directly under an identity run
C34_Witness ==
  /\ \E q \in api_request : q.step_run_id # Null
  /\ \E q \in api_request :
       /\ q.step_run_id = Null
       /\ \E r \in pipeline_run : r.run_id = q.run_id /\ r.run_day = IDENTITY_DAY

RunSteps(id) == {c \in closed_steps : c.run_id = id}

\* the outcome claimed for a daily run all of whose entities failed
AllFailedOutcome(r) ==
  /\ RunRow(r.run_id).status = "completed"
  /\ \A src \in Sources :
       \E c \in RunSteps(r.run_id) :
         /\ c.source = src
         /\ StepRow(c.step_run_id).status = "completed"
         /\ StepRow(c.step_run_id).success_count = 0
         /\ StepRow(c.step_run_id).error_count = c.entities
  /\ MergeCalls(r.run_id) # {}
  /\ \A c \in RunSteps(r.run_id) : \A k \in DOMAIN c.artist_list :
       LET a == c.artist_list[k].local_artist_id IN
       (\A src \in Sources : SnapshotOf(SnapshotTable(src), a, DAY_STR) = {})
         => UnifiedRows(a, DAY_STR) = {}

\* C35: a daily job over N >= 1 entities whose clients were all built and in
\* which no entity succeeded in any step has ended: its run row is completed,
\* each of the three steps closed completed with success_count = 0 and
\* error_count = N, and the merge was called and wrote no unified record for
\* an entity without snapshot.
C35_AllFailStillCompleted ==
  \A r \in returned :
    (/\ r.kind = "daily" /\ r.setup_failed = "none"
     /\ \A c \in RunSteps(r.run_id) : c.entities >= 1 /\ c.success_count = 0)
      => AllFailedOutcome(r)

\* C36: in the Spotify step the second traced call of an entity (top tracks)
\* is issued only after the first (artist) left its scope without exception;
\* when the first scope is left by an exception, the entity is over: the
\* loop goes on to the next entity without a second call, no snapshot table
\* changes (an existing snapshot of the entity stays as it is), and the
\* error counter grows by exactly one.
C36_FirstCallFailureEndsEntity ==
  [][/\ (pc = "request" /\ step.source = "spotify" /\ ent.req = 2) =>
          \E s \in scopes : s.request_id = ent.request_ids[1] /\ ~s.propagated
     /\ (/\ pc = "request" /\ step.source = "spotify" /\ ent.req = 1
         /\ \E s \in scopes' \ scopes : s.propagated) =>
          /\ pc' = "loop" /\ ent' = NoEnt
          /\ Cardinality(scopes') = Cardinality(scopes) + 1
          /\ UNCHANGED <<spotify_artist_daily, wiki_artist_daily, youtube_artist_daily>>
          /\ writer_log' = writer_log
          /\ step'.error_count = step.error_count + 1
          /\ step'.success_count = step.success_count]_vars

\* the artist call of the first entity of a Spotify step has just raised,
\* while the entity has a snapshot for the day from an earlier run
C36_Witness ==
  /\ pc = "loop" /\ step.source = "spotify" /\ step.idx = 1 /\ step.error_count = 1
  /\ Cardinality(StepScopes(step.step_run_id)) = 1
  /\ \E s \in StepScopes(step.step_run_id) : s.call_raised
  /\ \E r \in spotify_artist_daily :
       /\ r.local_artist_id = step.local_artist_id /\ r.day_date = job.run_day
       /\ r.job_run_id # job.run_id

\* C37: in the identity job whatever an entity's processing raises leaves
\* the run scope: a job that ended with an exception raised for an entity
\* handed that exception to its caller and its run row is failed; and no step
\* of the job writes, changes or removes a reference record, so the entity
\* that failed and the entities after it get none and the records stored
\* before remain.
C37_IdentityFailureEndsJob ==
  [][/\ \A r \in returned' :
          (r.kind = "identity" /\ r.exc # NoExc) =>
            /\ r.left = r.exc
            /\ \E w \in pipeline_run' : w.run_id = r.run_id /\ w.status = "failed"
     /\ (job.kind = "identity" /\ (pc' # pc \/ job' # job)) => artist_info' = artist_info]_vars

\* an identity job has ended failed on its first entity, its request row
\* stored, while the store holds a reference record written before
C37_Witness ==
  /\ pc = "idle"
  /\ \E r \in returned :
       /\ r.kind = "identity" /\ r.exc # NoExc
       /\ \E w \in pipeline_run : w.run_id = r.run_id /\ w.status = "failed"
  /\ \E s \in scopes : s.step_run_id = Null /\ s.written
  /\ artist_info # {}

C39_SpiderBoundedInRangeNoRevisit ==
  /\ Len(spider.items) <= spider.max_artists
  /\ \A i \in DOMAIN spider.items :
       /\ spider.items[i].monthly_listeners >= spider.min_artist_listeners
       /\ spider.items[i].monthly_listeners <= spider.max_artist_listeners
  /\ ~spider.assert_failed

====
